---- MODULE Spec2Model ----
(***************************************************************************)
(* Model of the Rivestack Terraform provider's reconciliation layer: the   *)
(* API client's conflict-retrying configure call and job poller, and the   *)
(* resource handlers (Create/Read/Update/Delete/ImportState) built on it.  *)
(*                                                                         *)
(* One behaviour drives one resource instance of one kind; the handlers of *)
(* that instance run one after another, as the host tool runs them.  A     *)
(* handler is a sequence of steps, one per remote call or sleep.  The      *)
(* remote API is the environment: it chooses every response.               *)
(*                                                                         *)
(* A second specification, PairSpec, runs the Create handlers of two       *)
(* resource instances against one cluster whose job slot they share.  A    *)
(* third, IdSpec, builds and parses composite identifiers alone.           *)
(*                                                                         *)
(* Strings that are parsed or built (identifiers) are sequences of         *)
(* one-character strings; opaque strings are TLA+ strings.                 *)
(***************************************************************************)
EXTENDS Integers, Sequences, FiniteSets, TLC

\* ------------------------------------------------------------- bounds ----
MaxIdLen == 2
MaxJobs == 2

\* ---------------------------------------------------- program constants --
HTTPTimeout == 120
RetryInterval == 10
PollInterval == 10
ConfigureMaxWait == 120
JobTimeout == 300
ScaleJobTimeout == 600
DeleteTimeout == 600
DeletePollInterval == 10
ActiveTimeout == 1500
ActivePollInterval == 15
StatusNotFound == 404
StatusConflict == 409
StatusGone == 410
MaxNodes == 3

\* ------------------------------------------------------------ strings ----
Alphabet == {"1", "x", "/"}

RECURSIVE StringsUpTo(_)
StringsUpTo(n) ==
    IF n = 0 THEN {<<>>}
    ELSE LET shorter == StringsUpTo(n - 1)
         IN shorter \cup {Append(s, c) : s \in {t \in shorter : Len(t) = n - 1}, c \in Alphabet}

Slash == "/"

HasSlash(s) == \E i \in 1..Len(s) : s[i] = Slash

FirstSlash(s) == CHOOSE i \in 1..Len(s) : s[i] = Slash /\ \A j \in 1..(i - 1) : s[j] # Slash

\* strings.SplitN(s, "/", n), n >= 1: at most n parts, the last one unsplit.
RECURSIVE SplitN(_, _)
SplitN(s, n) ==
    IF n <= 1 \/ ~HasSlash(s) THEN <<s>>
    ELSE LET i == FirstSlash(s)
         IN <<SubSeq(s, 1, i - 1)>> \o SplitN(SubSeq(s, i + 1, Len(s)), n - 1)

DigitChars == {"0", "1", "2", "3", "4", "5", "6", "7", "8", "9"}

DigitVal(c) ==
    CASE c = "0" -> 0 [] c = "1" -> 1 [] c = "2" -> 2 [] c = "3" -> 3 [] c = "4" -> 4
      [] c = "5" -> 5 [] c = "6" -> 6 [] c = "7" -> 7 [] c = "8" -> 8 [] c = "9" -> 9

DigitChar(d) ==
    CASE d = 0 -> "0" [] d = 1 -> "1" [] d = 2 -> "2" [] d = 3 -> "3" [] d = 4 -> "4"
      [] d = 5 -> "5" [] d = 6 -> "6" [] d = 7 -> "7" [] d = 8 -> "8" [] d = 9 -> "9"

RECURSIVE DecimalValue(_)
DecimalValue(s) ==
    IF Len(s) = 0 THEN 0
    ELSE 10 * DecimalValue(SubSeq(s, 1, Len(s) - 1)) + DigitVal(s[Len(s)])

\* strconv.Atoi on the model's alphabet (no sign characters): a nonempty run
\* of digits parses, anything else is an error.
Atoi(s) ==
    IF Len(s) > 0 /\ \A i \in 1..Len(s) : s[i] \in DigitChars
    THEN [ok |-> TRUE, val |-> DecimalValue(s)]
    ELSE [ok |-> FALSE, val |-> 0]

\* strconv.Itoa / fmt's %d for n >= 0.
RECURSIVE Itoa(_)
Itoa(n) == IF n < 10 THEN <<DigitChar(n)>> ELSE Itoa(n \div 10) \o <<DigitChar(n % 10)>>

\* ------------------------------------------------------------- errors ----
\* An error value: its dynamic type, the HTTP status of an *APIError, its
\* message, and (for fmt.Errorf("...: %w", err)) the status of the *APIError
\* it wraps, 0 when it wraps none.
\* `detail` is the %s argument of a formatted message.
NoErr == [type |-> "nil", status |-> 0, msg |-> "", wraps |-> 0, detail |-> <<>>]

APIError(status) ==
    [type |-> "APIError", status |-> status, msg |-> "API error", wraps |-> 0, detail |-> <<>>]

Errorf(msg, detail) ==
    [type |-> "errorString", status |-> 0, msg |-> msg, wraps |-> 0, detail |-> detail]

WrapErrorf(msg, err) ==
    [type |-> "wrapError", status |-> 0, msg |-> msg,
     wraps |-> IF err.type = "APIError" THEN err.status ELSE err.wraps,
     detail |-> err.detail]

CtxErr ==
    [type |-> "ctxError", status |-> 0, msg |-> "context canceled", wraps |-> 0, detail |-> <<>>]

\* doRequest's non-API failure ("executing request: ...").
TransportErr ==
    [type |-> "wrapError", status |-> 0, msg |-> "executing request", wraps |-> 0,
     detail |-> <<>>]

\* err.(*APIError) is a type assertion: a wrapped *APIError does not match.
\* An IsNotFound that knows no 404.
IsNotFoundNever(err) == FALSE

IsNotFound(err) == err.type = "APIError" /\ err.status = StatusNotFound

\* IsConflict as errors.As would decide it: it looks through %w wrapping.
IsConflictUnwrapping(err) ==
    \/ err.type = "APIError" /\ err.status = StatusConflict
    \/ err.wraps = StatusConflict

\* Every API error taken for a conflict.
IsConflictAnyAPIError(err) == err.type = "APIError"

\* An IsConflict that knows no conflict.
IsConflictNever(err) == FALSE

IsConflict(err) == err.type = "APIError" /\ err.status = StatusConflict

\* IsGone that was never taught the 410 status.
IsGoneForgotten(err) == FALSE

IsGone(err) == err.type = "APIError" /\ err.status = StatusGone

\* -------------------------------------------------------------- state ----
VARIABLES
    kind,       \* the resource kind of the instance this behaviour drives
    managed,    \* whether the instance is in managed (Terraform) state
    tf,         \* the instance's managed state record
    remote,     \* the remote cluster as the API holds it
    verb,       \* the handler running: Create, Read, Update, Delete, ImportState
    plan,       \* the handler's input (req.Plan, or req.ID for ImportState)
    pc,         \* the handler's position
    timeout,    \* maxWait / timeout of the retry or poll loop in progress
    elapsed,    \* whole seconds since that loop took its deadline
    attempts,   \* HTTP requests the client method in progress has issued
    conflicts,  \* how many of them made the loop go on (409; a pending job list)
    last,       \* the response to the latest of them
    cfgReq,     \* the ConfigureRequest of the ConfigureWithRetry in progress
    ret,        \* the error the last client method returned
    configResp, \* the response ConfigureWithRetry returned to the handler
    calls,      \* client methods the handler has invoked, in order
    diag,       \* the handler's error diagnostic
    cancelled,  \* ctx.Done() is closed
    i,          \* Cluster Update's loop variable
    tenant,     \* TenantID read by Cluster Update before removing nodes
    oldCount,   \* Cluster Update's state.NodeCount
    inst,       \* PairSpec: the two resource instances (one handler frame each)
    slot        \* PairSpec: the cluster's configuration job slot

vars == <<kind, managed, tf, remote, verb, plan, pc, timeout, elapsed, attempts, conflicts, last,
          cfgReq, ret, configResp, calls, diag, cancelled, i, tenant, oldCount, inst, slot>>

\* What only PairSpec moves.
pairVars == <<inst, slot>>

loopVars == <<timeout, elapsed, attempts, conflicts, last, cfgReq, ret, configResp>>

Kinds == {"user", "database", "extension", "grant", "firewall", "backup_config", "cluster"}

NoDiag == [summary |-> "", err |-> NoErr]

\* client.ConfigureRequest; absent slices are empty.
EmptyRequest ==
    [Users |-> <<>>, DeleteUsers |-> <<>>, Databases |-> <<>>, DeleteDatabases |-> <<>>,
     Extensions |-> <<>>, Grants |-> <<>>, SourceIPs |-> <<>>, ReplaceIPs |-> FALSE]

\* client.ConfigureResponse.
EmptyResponse == [JobID |-> 0, Users |-> <<>>, Databases |-> <<>>, Extensions |-> <<>>]

\* A slow remote call takes HTTPTimeout seconds, a fast one no whole second.
\* Every call takes some time, so after a call the clock reads strictly
\* more than `elapsed`.
Latencies == {0, HTTPTimeout}

\* A deadline that never passes.
AfterNever(t, maxWait) == FALSE

\* time.Now().After(deadline), evaluated after at least one remote call.
After(t, maxWait) == t >= maxWait

\* time.Now().Before(deadline).
Before(t, maxWait) == t < maxWait

\* ------------------------------------------------------------- remote ----
\* The remote API is outside the repository; what it does with an accepted
\* request follows the wire contract: users, databases, extensions and grants
\* are upserted by key, delete lists remove by name, and the source-IP list
\* replaces the allowlist when replace_ips is set and is merged otherwise.
Range(seq) == {seq[n] : n \in 1..Len(seq)}

\* The key the remote identifies an entity of collection coll by.
KeyOf(coll, a) ==
    CASE coll = "Users" -> <<a.Username>>
      [] coll = "Databases" -> <<a.DBName>>
      [] coll = "Extensions" -> <<a.Extension, a.Database>>
      [] coll = "Grants" -> <<a.Username, a.Database>>

\* Items of one request have distinct keys.
UpsertAll(seq, items, coll) ==
    LET match(n) == {m \in 1..Len(items) : KeyOf(coll, items[m]) = KeyOf(coll, seq[n])}
        isNew(item) == \A n \in 1..Len(seq) : KeyOf(coll, item) # KeyOf(coll, seq[n])
    IN [n \in 1..Len(seq) |->
           IF match(n) = {} THEN seq[n] ELSE items[CHOOSE m \in match(n) : TRUE]]
       \o SelectSeq(items, isNew)

\* The password a user record of the cluster carries (ClusterUser.Password).
RecordPassword == "pw-record"

DefaultDB == <<"d">>
DefaultOwner == "o"

RemoteApply(r, req) ==
    LET keepUser(u) == u.Username \notin Range(req.DeleteUsers)
        keepDB(d) == d.DBName \notin Range(req.DeleteDatabases)
        dbs == [n \in 1..Len(req.Databases) |->
                   [DBName |-> req.Databases[n].Name,
                    Owner |-> IF req.Databases[n].Owner = "" THEN DefaultOwner
                              ELSE req.Databases[n].Owner]]
        users == [n \in 1..Len(req.Users) |->
                    [Username |-> req.Users[n].Username, Password |-> RecordPassword]]
        exts == [n \in 1..Len(req.Extensions) |->
                   [Extension |-> req.Extensions[n].Extension,
                    Database |-> IF req.Extensions[n].Database = <<>> THEN DefaultDB
                                 ELSE req.Extensions[n].Database]]
    IN [r EXCEPT
          !.Users = SelectSeq(UpsertAll(@, users, "Users"), keepUser),
          !.Databases = SelectSeq(UpsertAll(@, dbs, "Databases"), keepDB),
          !.Extensions = UpsertAll(@, exts, "Extensions"),
          !.Grants = UpsertAll(@, req.Grants, "Grants"),
          !.SourceIPs = IF req.ReplaceIPs THEN Range(req.SourceIPs)
                        ELSE @ \cup Range(req.SourceIPs)]

\* Statuses of 400 and above that no classifier names.
OtherStatuses == {500}

\* doRequest that hands 404 answers to the caller as success.
doRequestFrom409(status) ==
    IF status = 0 THEN TransportErr
    ELSE IF status >= StatusConflict THEN APIError(status) ELSE NoErr

\* The error doRequest returns for a response with this status; status 0
\* stands for no response (HTTPClient.Do failed).
doRequest(status) ==
    IF status = 0 THEN TransportErr
    ELSE IF status >= 400 THEN APIError(status) ELSE NoErr

\* The statuses of failing requests.  Once ctx is cancelled every HTTP
\* request fails in the transport.
FailureStatuses ==
    IF cancelled THEN {0}
    ELSE {0, StatusNotFound, StatusConflict, StatusGone} \cup OtherStatuses

RequestErrors == {doRequest(st) : st \in FailureStatuses}

JobIDs == {0, 7}
Passwords == {"pw-a"}

\* The responses the remote may give to an accepted configure request.
ConfigureResponses(req) ==
    {[JobID |-> j, Users |-> us, Databases |-> ds, Extensions |-> es] :
        j \in JobIDs,
        us \in {<<>>} \cup {<<[Username |-> req.Users[1].Username, Password |-> p]>> :
                               p \in IF req.Users = <<>> THEN {} ELSE Passwords},
        ds \in {<<>>} \cup {<<[Name |-> req.Databases[1].Name, Owner |-> o]>> :
                               o \in IF req.Databases = <<>> THEN {}
                                    ELSE {IF req.Databases[1].Owner = "" THEN DefaultOwner
                                          ELSE req.Databases[1].Owner}},
        es \in {<<>>} \cup {<<[Extension |-> req.Extensions[1].Extension, Database |-> d]>> :
                               d \in IF req.Extensions = <<>> THEN {}
                                    ELSE {<<>>,
                                          IF req.Extensions[1].Database = <<>> THEN DefaultDB
                                          ELSE req.Extensions[1].Database}}}

\* The error message of job n, should it fail: one message per job.
ErrorMessageOf(n) == <<"job", n>>

Job(id, status) ==
    [ID |-> id, Status |-> status,
     ErrorMessage |-> IF status = "failed" THEN ErrorMessageOf(id) ELSE <<>>]

\* The non-empty active-job lists the remote may report.
JobLists ==
    UNION {{[n \in 1..len |-> Job(n, f[n])] : f \in [1..len -> {"running", "failed"}]} :
             len \in 1..MaxJobs}

\* The cluster as GetCluster returns it.
ClusterView(r) ==
    [TenantID |-> r.TenantID, NodeCount |-> r.NodeCount, DBName |-> DefaultDB,
     SourceIPs |-> r.SourceIPs, Users |-> r.Users, Databases |-> r.Databases,
     Extensions |-> r.Extensions, Grants |-> r.Grants]

\* -------------------------------------------------------- client layer ---
\* One request of a loop: the status answered, the error doRequest made of
\* it, and the decoded body.
Attempt(status, resp, jobs) ==
    [status |-> status, err |-> doRequest(status), resp |-> resp, jobs |-> jobs,
     cluster |-> ""]

NoAttempt ==
    [status |-> -1, err |-> NoErr, resp |-> EmptyResponse, jobs |-> <<>>, cluster |-> ""]

Call(fn) == [fn |-> fn, req |-> EmptyRequest, name |-> <<>>]

\* ConfigureWithRetry that returns a fresh zero response on success.
ConfigureWithRetryDropsResponse(err, resp, t, maxWait) ==
    IF err = NoErr THEN [next |-> "return", resp |-> EmptyResponse, err |-> NoErr]
    ELSE IF ~IsConflict(err) THEN [next |-> "return", resp |-> EmptyResponse, err |-> err]
    ELSE IF After(t, maxWait)
         THEN [next |-> "return", resp |-> EmptyResponse,
               err |-> WrapErrorf("timeout waiting for cluster to be available for configuration", err)]
         ELSE [next |-> "sleep", resp |-> EmptyResponse, err |-> NoErr]

\* ConfigureWithRetry after one ConfigureCluster call that returned
\* (resp, err) with the clock at t: return, or sleep and retry.
ConfigureWithRetryDecide(err, resp, t, maxWait) ==
    IF err = NoErr THEN [next |-> "return", resp |-> resp, err |-> NoErr]
    ELSE IF ~IsConflict(err) THEN [next |-> "return", resp |-> EmptyResponse, err |-> err]
    ELSE IF After(t, maxWait)
         THEN [next |-> "return", resp |-> EmptyResponse,
               err |-> WrapErrorf("timeout waiting for cluster to be available for configuration", err)]
         ELSE [next |-> "sleep", resp |-> EmptyResponse, err |-> NoErr]

FirstFailed(jobs) ==
    jobs[CHOOSE n \in 1..Len(jobs) :
            jobs[n].Status = "failed" /\ \A m \in 1..(n - 1) : jobs[m].Status # "failed"]

\* WaitForJobComplete that takes a list holding a failed job for a finished one.
WaitForJobCompleteIgnoringFailed(err, jobs) ==
    IF err # NoErr THEN [next |-> "return", err |-> WrapErrorf("polling job status", err)]
    ELSE IF Len(jobs) = 0 THEN [next |-> "return", err |-> NoErr]
    ELSE IF \E n \in 1..Len(jobs) : jobs[n].Status = "failed"
         THEN [next |-> "return", err |-> NoErr]
         ELSE [next |-> "sleep", err |-> NoErr]

\* WaitForJobComplete that polls again after a fetch that failed.
WaitForJobCompleteRetryingFetchError(err, jobs) ==
    IF err # NoErr THEN [next |-> "sleep", err |-> NoErr]
    ELSE IF Len(jobs) = 0 THEN [next |-> "return", err |-> NoErr]
    ELSE IF \E n \in 1..Len(jobs) : jobs[n].Status = "failed"
         THEN [next |-> "return",
               err |-> Errorf("cluster job failed", FirstFailed(jobs).ErrorMessage)]
         ELSE [next |-> "sleep", err |-> NoErr]

\* WaitForJobComplete after one poll that returned (jobs, err).
WaitForJobCompleteDecide(err, jobs) ==
    IF err # NoErr THEN [next |-> "return", err |-> WrapErrorf("polling job status", err)]
    ELSE IF Len(jobs) = 0 THEN [next |-> "return", err |-> NoErr]
    ELSE IF \E n \in 1..Len(jobs) : jobs[n].Status = "failed"
         THEN [next |-> "return",
               err |-> Errorf("cluster job failed", FirstFailed(jobs).ErrorMessage)]
         ELSE [next |-> "sleep", err |-> NoErr]

\* The handler calls ConfigureWithRetry(ctx, clusterID, req, 2*time.Minute).
EnterConfigure(req) ==
    /\ pc' = "cfg_call"
    /\ cfgReq' = req
    /\ timeout' = ConfigureMaxWait
    /\ elapsed' = 0
    /\ attempts' = 0
    /\ conflicts' = 0
    /\ last' = NoAttempt
    /\ ret' = NoErr
    /\ configResp' = EmptyResponse
    /\ calls' = Append(calls, [Call("ConfigureWithRetry") EXCEPT !.req = req])

\* WaitForJobComplete(ctx, clusterID, t) starts: deadline := now + t.
JobWaitFrame(t) ==
    /\ pc' = "job_call"
    /\ timeout' = t
    /\ elapsed' = 0
    /\ attempts' = 0
    /\ conflicts' = 0
    /\ last' = NoAttempt
    /\ ret' = NoErr
    /\ UNCHANGED <<cfgReq, configResp>>

\* The handler calls WaitForJobComplete(ctx, clusterID, t).
EnterJobWait(t) ==
    /\ JobWaitFrame(t)
    /\ calls' = Append(calls, Call("WaitForJobComplete"))

\* One iteration of ConfigureWithRetry's loop up to its return or its select.
ConfigureAttempt ==
    /\ pc = "cfg_call"
    /\ \E d \in Latencies,
          out \in {Attempt(st, EmptyResponse, <<>>) : st \in FailureStatuses} \cup
                  {Attempt(200, r, <<>>) :
                       r \in IF cancelled THEN {} ELSE ConfigureResponses(cfgReq)} :
          LET t == elapsed + d
              dec == ConfigureWithRetryDecide(out.err, out.resp, t, timeout)
          IN /\ elapsed' = t
             /\ attempts' = attempts + 1
             /\ conflicts' = IF out.err = APIError(StatusConflict) THEN conflicts + 1
                              ELSE conflicts
             /\ last' = out
             /\ remote' = IF out.status = 200 THEN RemoteApply(remote, cfgReq) ELSE remote
             /\ IF dec.next = "return"
                THEN pc' = "cfg_ret" /\ ret' = dec.err /\ configResp' = dec.resp
                ELSE pc' = "cfg_sleep" /\ UNCHANGED <<ret, configResp>>
    /\ UNCHANGED <<pairVars, kind, managed, tf, verb, plan, timeout, cfgReq, calls, diag, cancelled,
                   i, tenant, oldCount>>

\* A select that waits for the timer alone.
ConfigureSleepTimerOnly ==
    /\ pc = "cfg_sleep"
    /\ pc' = "cfg_call" /\ elapsed' = elapsed + RetryInterval /\ UNCHANGED ret
    /\ UNCHANGED <<pairVars, kind, managed, tf, remote, verb, plan, timeout, attempts, conflicts,
                   last, cfgReq, configResp, calls, diag, cancelled, i, tenant, oldCount>>

\* ConfigureWithRetry's select: cancellation wins over the timer.
ConfigureSleep ==
    /\ pc = "cfg_sleep"
    /\ IF cancelled
       THEN pc' = "cfg_ret" /\ ret' = CtxErr /\ UNCHANGED elapsed
       ELSE pc' = "cfg_call" /\ elapsed' = elapsed + RetryInterval /\ UNCHANGED ret
    /\ UNCHANGED <<pairVars, kind, managed, tf, remote, verb, plan, timeout, attempts, conflicts,
                   last, cfgReq, configResp, calls, diag, cancelled, i, tenant, oldCount>>

\* A node job that a poll saw finished takes effect; one seen failed does not.
RemoteJobsSeen(r, jobs) ==
    IF Len(jobs) = 0
    THEN [r EXCEPT !.pending = "none",
                   !.NodeCount = CASE r.pending = "add" -> @ + 1
                                   [] r.pending = "remove" -> @ - 1
                                   [] OTHER -> @]
    ELSE IF \E n \in 1..Len(jobs) : jobs[n].Status = "failed"
         THEN [r EXCEPT !.pending = "none"]
         ELSE r

\* One iteration of WaitForJobComplete's loop: the deadline test, the poll,
\* and what follows up to the return or the select.
JobPoll ==
    /\ pc = "job_call"
    /\ IF ~Before(elapsed, timeout)
       THEN /\ pc' = "job_ret"
            /\ ret' = Errorf("timeout waiting for cluster jobs to complete", <<>>)
            /\ UNCHANGED <<elapsed, attempts, conflicts, last, remote>>
       ELSE \E d \in Latencies,
               out \in {Attempt(st, EmptyResponse, <<>>) : st \in FailureStatuses} \cup
                       {Attempt(200, EmptyResponse, l) :
                            l \in IF cancelled THEN {} ELSE JobLists \cup {<<>>}} :
               LET dec == WaitForJobCompleteDecide(out.err, out.jobs)
               IN /\ elapsed' = elapsed + d
                  /\ attempts' = attempts + 1
                  /\ conflicts' = IF /\ out.status = 200 /\ out.jobs # <<>>
                                     /\ \A n \in 1..Len(out.jobs) :
                                           out.jobs[n].Status # "failed"
                                  THEN conflicts + 1 ELSE conflicts
                  /\ last' = IF dec.next = "return" THEN out ELSE NoAttempt
                  /\ remote' = IF out.status = 200 THEN RemoteJobsSeen(remote, out.jobs)
                                ELSE remote
                  /\ IF dec.next = "return"
                     THEN pc' = "job_ret" /\ ret' = dec.err
                     ELSE pc' = "job_sleep" /\ UNCHANGED ret
    /\ UNCHANGED <<pairVars, kind, managed, tf, verb, plan, timeout, cfgReq, configResp,
                   calls, diag, cancelled, i, tenant, oldCount>>

\* WaitForJobComplete's select.
JobSleep ==
    /\ pc = "job_sleep"
    /\ IF cancelled
       THEN pc' = "job_ret" /\ ret' = CtxErr /\ UNCHANGED elapsed
       ELSE pc' = "job_call" /\ elapsed' = elapsed + PollInterval /\ UNCHANGED ret
    /\ UNCHANGED <<pairVars, kind, managed, tf, remote, verb, plan, timeout, attempts, conflicts,
                   last, cfgReq, configResp, calls, diag, cancelled, i, tenant, oldCount>>

\* The host cancels the handler's context while it waits or retries.
Cancel ==
    /\ pc \in {"cfg_call", "cfg_sleep", "job_call", "job_sleep", "del_call", "del_sleep",
              "act_call", "act_sleep"}
    /\ ~cancelled
    /\ cancelled' = TRUE
    /\ UNCHANGED <<pairVars, kind, managed, tf, remote, verb, plan, pc, timeout, elapsed, attempts,
                   conflicts, last, cfgReq, ret, configResp, calls, diag, i, tenant, oldCount>>

\* ------------------------------------------------------ handler frames ---
\* types.String values that are unknown or null (opaque strings, and strings
\* that are parsed or built).
Unknown == "<unknown>"
UnknownStr == <<"<unknown>">>
NullStr == <<"<null>">>

\* The frame of the client method that returned is gone; what it returned
\* (ret, configResp) and the last response it saw stay with the handler.
DropCounters ==
    /\ timeout' = 0
    /\ elapsed' = 0
    /\ attempts' = 0
    /\ conflicts' = 0

DropFrame ==
    /\ DropCounters
    /\ UNCHANGED <<last, cfgReq, ret, configResp>>

\* A client method that is one request has returned err: the handler that
\* absorbs it or has no error returns without a diagnostic, otherwise with one.
ReturnAfter(err, absorbed, summary, present, newTf) ==
    /\ pc' = "done"
    /\ ret' = err
    /\ DropCounters
    /\ UNCHANGED <<last, cfgReq, configResp>>
    /\ IF err # NoErr /\ ~absorbed
       THEN diag' = [summary |-> summary, err |-> err] /\ UNCHANGED <<managed, tf>>
       ELSE diag' = NoDiag /\ managed' = present /\ tf' = newTf

\* The handler returns with an error diagnostic; state is left as it was.
FailNow(summary, err) ==
    /\ pc' = "done"
    /\ diag' = [summary |-> summary, err |-> err]
    /\ DropFrame
    /\ UNCHANGED <<managed, tf>>

\* The handler returns without error.  present = TRUE: it called
\* resp.State.Set(newTf).  present = FALSE: it called RemoveResource, or it is
\* a Delete, after which the framework drops the resource from state.
Finish(present, newTf) ==
    /\ pc' = "done"
    /\ diag' = NoDiag
    /\ managed' = present
    /\ tf' = newTf
    /\ DropFrame

Configure(req) == EnterConfigure(req) /\ UNCHANGED <<managed, tf, diag>>

Wait(t) == EnterJobWait(t) /\ UNCHANGED <<managed, tf, diag>>

\* GetCluster as one request: an error, or the cluster.
GetClusterOutcomes ==
    {[err |-> e, cluster |-> ClusterView(remote)] :
        e \in RequestErrors \cup (IF cancelled THEN {} ELSE {NoErr})}

ParseFailure(msg) == [ok |-> FALSE, err |-> Errorf(msg, <<>>), clusterID |-> 0, parts |-> <<>>]

\* parseUserID, parseDatabaseID (n = 2), parseExtensionID, parseGrantID (n = 3).
ParseID(id, n, format) ==
    LET parts == SplitN(id, n)
    IN IF Len(parts) # n THEN ParseFailure(format)
       ELSE IF ~Atoi(parts[1]).ok THEN ParseFailure("invalid cluster ID")
       ELSE [ok |-> TRUE, err |-> NoErr, clusterID |-> Atoi(parts[1]).val,
             parts |-> Tail(parts)]

\* fmt.Sprintf("%d/%s", ...), fmt.Sprintf("%d/%s/%s", ...).
RECURSIVE JoinSlash(_)
JoinSlash(parts) ==
    IF Len(parts) = 1 THEN parts[1] ELSE parts[1] \o <<Slash>> \o JoinSlash(Tail(parts))

\* Identifiers given to ImportState or found in stored state: every string
\* up to MaxIdLen, and some longer ones with three and four parts.
IdInputs ==
    StringsUpTo(MaxIdLen) \cup
    {<<"1", "/", "x", "/", "x">>, <<"x", "/", "x", "/", "x">>,
     <<"1", "/", "x", "/", "x", "/", "x">>}

ClusterIDInputs == {<<"1">>, <<"x">>}
NameInputs == {<<"x">>}

\* The handler goes back to the host.  A behaviour follows one resource
\* instance: once Read or Delete has taken it out of the state, the host has
\* nothing more to ask about it.
Return ==
    /\ pc = "done"
    /\ pc' = IF ~managed /\ verb \in {"Read", "Delete"} THEN "gone" ELSE "idle"
    /\ verb' = ""
    /\ plan' = tf
    /\ calls' = <<>>
    /\ diag' = NoDiag
    /\ cancelled' = FALSE
    /\ timeout' = 0
    /\ elapsed' = 0
    /\ attempts' = 0
    /\ conflicts' = 0
    /\ last' = NoAttempt
    /\ cfgReq' = EmptyRequest
    /\ ret' = NoErr
    /\ configResp' = EmptyResponse
    /\ i' = 0
    /\ tenant' = <<>>
    /\ oldCount' = 0
    /\ UNCHANGED <<pairVars, kind, managed, tf, remote>>

\* ---------------------------------------------------------------- user ---
BlankUser == [id |-> <<>>, cluster_id |-> <<>>, username |-> <<>>, password |-> ""]

UserPlans ==
    {[id |-> <<>>, cluster_id |-> c, username |-> u, password |-> Unknown] :
        c \in ClusterIDInputs, u \in NameInputs}

parseUserID(id) == ParseID(id, 2, "expected format: cluster_id/username")

\* Create from "plan.ID = ..." to State.Set.
UserCreateState(p, resp) ==
    LET hits == {n \in 1..Len(resp.Users) : resp.Users[n].Username = p.username}
        first == CHOOSE n \in hits : \A m \in hits : n <= m
    IN [p EXCEPT !.id = JoinSlash(<<Itoa(Atoi(p.cluster_id).val), p.username>>),
                 !.password = IF hits = {} THEN @ ELSE resp.Users[first].Password]

UserCreateBegin ==
    /\ pc = "idle" /\ kind = "user" /\ ~managed
    /\ \E p \in UserPlans :
          /\ verb' = "Create"
          /\ plan' = p
          /\ IF ~Atoi(p.cluster_id).ok
             THEN FailNow("Invalid cluster ID", Errorf("strconv.Atoi", <<>>)) /\ UNCHANGED calls
             ELSE Configure([EmptyRequest EXCEPT !.Users = <<[Username |-> p.username]>>])
    /\ UNCHANGED <<pairVars, kind, remote, cancelled, i, tenant, oldCount>>

UserCreateConfigured ==
    /\ pc = "cfg_ret" /\ kind = "user" /\ verb = "Create"
    /\ IF ret # NoErr
       THEN FailNow("Error creating cluster user", ret) /\ UNCHANGED calls
       ELSE IF configResp.JobID > 0
            THEN Wait(JobTimeout)
            ELSE Finish(TRUE, UserCreateState(plan, configResp)) /\ UNCHANGED calls
    /\ UNCHANGED <<pairVars, kind, verb, plan, remote, cancelled, i, tenant, oldCount>>

UserCreateWaited ==
    /\ pc = "job_ret" /\ kind = "user" /\ verb = "Create"
    /\ IF ret # NoErr
       THEN FailNow("Error waiting for user creation", ret)
       ELSE Finish(TRUE, UserCreateState(plan, configResp))
    /\ UNCHANGED <<pairVars, kind, verb, plan, remote, calls, cancelled, i, tenant, oldCount>>

\* Read copying the password of the cluster's record into the state.
UserReadStateCopyingPassword(state, u) == [state EXCEPT !.password = u.Password]

\* "password is only returned at creation": Read sets the state it got.
UserReadState(state, u) == state

UserRead ==
    /\ pc = "idle" /\ kind = "user" /\ managed
    /\ verb' = "Read"
    /\ plan' = tf
    /\ LET id == parseUserID(tf.id)
       IN IF ~id.ok
          THEN FailNow("Invalid resource ID", id.err) /\ UNCHANGED calls
          ELSE \E out \in GetClusterOutcomes :
                  /\ calls' = Append(calls, Call("GetCluster"))
                  /\ LET hits == {n \in 1..Len(out.cluster.Users) :
                                     out.cluster.Users[n].Username = id.parts[1]}
                     IN ReturnAfter(out.err, IsNotFound(out.err) \/ IsGone(out.err),
                                    "Error reading cluster", out.err = NoErr /\ hits # {},
                                    IF out.err = NoErr /\ hits # {}
                                    THEN UserReadState(tf,
                                             out.cluster.Users[CHOOSE n \in hits : TRUE])
                                    ELSE BlankUser)
    /\ UNCHANGED <<pairVars, kind, remote, cancelled, i, tenant, oldCount>>

UserUpdate ==
    /\ pc = "idle" /\ kind = "user" /\ managed
    /\ verb' = "Update"
    /\ plan' = tf
    /\ FailNow("Update not supported", Errorf("Cluster user attributes cannot be updated in-place.", <<>>))
    /\ UNCHANGED <<pairVars, kind, remote, calls, cancelled, i, tenant, oldCount>>

UserDeleteBegin ==
    /\ pc = "idle" /\ kind = "user" /\ managed
    /\ verb' = "Delete"
    /\ plan' = tf
    /\ LET id == parseUserID(tf.id)
       IN IF ~id.ok
          THEN FailNow("Invalid resource ID", id.err) /\ UNCHANGED calls
          ELSE Configure([EmptyRequest EXCEPT !.DeleteUsers = <<id.parts[1]>>])
    /\ UNCHANGED <<pairVars, kind, remote, cancelled, i, tenant, oldCount>>

UserDeleteConfigured ==
    /\ pc = "cfg_ret" /\ kind = "user" /\ verb = "Delete"
    /\ IF ret # NoErr
       THEN IF IsNotFound(ret) \/ IsGone(ret)
            THEN Finish(FALSE, BlankUser) /\ UNCHANGED calls
            ELSE FailNow("Error deleting cluster user", ret) /\ UNCHANGED calls
       ELSE IF configResp.JobID > 0
            THEN Wait(JobTimeout)
            ELSE Finish(FALSE, BlankUser) /\ UNCHANGED calls
    /\ UNCHANGED <<pairVars, kind, verb, plan, remote, cancelled, i, tenant, oldCount>>

UserDeleteWaited ==
    /\ pc = "job_ret" /\ kind = "user" /\ verb = "Delete"
    /\ IF ret # NoErr
       THEN FailNow("Error waiting for user deletion", ret)
       ELSE Finish(FALSE, BlankUser)
    /\ UNCHANGED <<pairVars, kind, verb, plan, remote, calls, cancelled, i, tenant, oldCount>>

UserImportState ==
    /\ pc = "idle" /\ kind = "user" /\ ~managed
    /\ \E id \in IdInputs :
          LET parts == SplitN(id, 2)
          IN /\ verb' = "ImportState"
             /\ plan' = [BlankUser EXCEPT !.id = id]
             /\ IF Len(parts) # 2
                THEN FailNow("Invalid import ID", Errorf("Import ID must be in the format: cluster_id/username", <<>>))
                ELSE Finish(TRUE, [id |-> id, cluster_id |-> parts[1],
                                   username |-> parts[2], password |-> ""])
    /\ UNCHANGED <<pairVars, kind, remote, calls, cancelled, i, tenant, oldCount>>

UserNext ==
    \/ UserCreateBegin \/ UserCreateConfigured \/ UserCreateWaited
    \/ UserRead \/ UserUpdate
    \/ UserDeleteBegin \/ UserDeleteConfigured \/ UserDeleteWaited
    \/ UserImportState

\* ------------------------------------------------------------ database ---
BlankDatabase == [id |-> <<>>, cluster_id |-> <<>>, name |-> <<>>, owner |-> ""]

OwnerInputs == {"p"}

DatabasePlans ==
    {[id |-> <<>>, cluster_id |-> c, name |-> n, owner |-> o] :
        c \in ClusterIDInputs, n \in NameInputs, o \in {Unknown, "p"}}

parseDatabaseID(id) == ParseID(id, 2, "expected format: cluster_id/database_name")

IsKnown(v) == v # Unknown

\* Create's "Extract owner from configure response first."
DatabaseOwnerFromResponse(p, resp) ==
    LET hits == {n \in 1..Len(resp.Databases) : resp.Databases[n].Name = p.name}
        first == CHOOSE n \in hits : \A m \in hits : n <= m
    IN IF hits = {} THEN p.owner ELSE resp.Databases[first].Owner

\* Create's "read back from the cluster", given GetCluster's answer.
DatabaseOwnerFromCluster(p, owner, out) ==
    LET dbs == out.cluster.Databases
        hits == {n \in 1..Len(dbs) : dbs[n].DBName = p.name}
        first == CHOOSE n \in hits : \A m \in hits : n <= m
    IN IF out.err = NoErr /\ hits # {} THEN dbs[first].Owner ELSE owner

DatabaseCreateState(p, owner) ==
    [p EXCEPT !.id = JoinSlash(<<Itoa(Atoi(p.cluster_id).val), p.name>>),
              !.owner = IF IsKnown(owner) THEN owner ELSE ""]

\* Create after the configure job: from "plan.ID = ..." to State.Set.
DatabaseCreateFinish ==
    LET owner == DatabaseOwnerFromResponse(plan, configResp)
    IN IF IsKnown(owner)
       THEN Finish(TRUE, DatabaseCreateState(plan, owner)) /\ UNCHANGED calls
       ELSE \E out \in GetClusterOutcomes :
               /\ calls' = Append(calls, Call("GetCluster"))
               /\ Finish(TRUE, DatabaseCreateState(plan,
                                  DatabaseOwnerFromCluster(plan, owner, out)))

DatabaseRequest(p) ==
    [EmptyRequest EXCEPT
        !.Databases = <<[Name |-> p.name, Owner |-> IF IsKnown(p.owner) THEN p.owner ELSE ""]>>]

DatabaseCreateBegin ==
    /\ pc = "idle" /\ kind = "database" /\ ~managed
    /\ \E p \in DatabasePlans :
          /\ verb' = "Create"
          /\ plan' = p
          /\ IF ~Atoi(p.cluster_id).ok
             THEN FailNow("Invalid cluster ID", Errorf("strconv.Atoi", <<>>)) /\ UNCHANGED calls
             ELSE Configure(DatabaseRequest(p))
    /\ UNCHANGED <<pairVars, kind, remote, cancelled, i, tenant, oldCount>>

DatabaseCreateConfigured ==
    /\ pc = "cfg_ret" /\ kind = "database" /\ verb = "Create"
    /\ IF ret # NoErr
       THEN FailNow("Error creating cluster database", ret) /\ UNCHANGED calls
       ELSE IF configResp.JobID > 0
            THEN Wait(JobTimeout)
            ELSE DatabaseCreateFinish
    /\ UNCHANGED <<pairVars, kind, verb, plan, remote, cancelled, i, tenant, oldCount>>

DatabaseCreateWaited ==
    /\ pc = "job_ret" /\ kind = "database" /\ verb = "Create"
    /\ IF ret # NoErr
       THEN FailNow("Error waiting for database creation", ret) /\ UNCHANGED calls
       ELSE DatabaseCreateFinish
    /\ UNCHANGED <<pairVars, kind, verb, plan, remote, cancelled, i, tenant, oldCount>>

DatabaseRead ==
    /\ pc = "idle" /\ kind = "database" /\ managed
    /\ verb' = "Read"
    /\ plan' = tf
    /\ LET id == parseDatabaseID(tf.id)
       IN IF ~id.ok
          THEN FailNow("Invalid resource ID", id.err) /\ UNCHANGED calls
          ELSE \E out \in GetClusterOutcomes :
                  LET dbs == out.cluster.Databases
                      hits == {n \in 1..Len(dbs) : dbs[n].DBName = id.parts[1]}
                      first == CHOOSE n \in hits : \A m \in hits : n <= m
                  IN /\ calls' = Append(calls, Call("GetCluster"))
                     /\ ReturnAfter(out.err, IsNotFound(out.err) \/ IsGone(out.err),
                                    "Error reading cluster", out.err = NoErr /\ hits # {},
                                    IF out.err = NoErr /\ hits # {}
                                    THEN [tf EXCEPT !.owner = dbs[first].Owner]
                                    ELSE BlankDatabase)
    /\ UNCHANGED <<pairVars, kind, remote, cancelled, i, tenant, oldCount>>

DatabaseUpdateBegin ==
    /\ pc = "idle" /\ kind = "database" /\ managed
    /\ \E o \in OwnerInputs \ {tf.owner} :
          LET p == [tf EXCEPT !.owner = o]
          IN /\ verb' = "Update"
             /\ plan' = p
             /\ IF ~Atoi(p.cluster_id).ok
                THEN FailNow("Invalid cluster ID", Errorf("strconv.Atoi", <<>>))
                     /\ UNCHANGED calls
                ELSE Configure([EmptyRequest EXCEPT
                                   !.Databases = <<[Name |-> p.name, Owner |-> p.owner]>>])
    /\ UNCHANGED <<pairVars, kind, remote, cancelled, i, tenant, oldCount>>

DatabaseUpdateConfigured ==
    /\ pc = "cfg_ret" /\ kind = "database" /\ verb = "Update"
    /\ IF ret # NoErr
       THEN FailNow("Error updating cluster database", ret) /\ UNCHANGED calls
       ELSE IF configResp.JobID > 0
            THEN Wait(JobTimeout)
            ELSE Finish(TRUE, plan) /\ UNCHANGED calls
    /\ UNCHANGED <<pairVars, kind, verb, plan, remote, cancelled, i, tenant, oldCount>>

DatabaseUpdateWaited ==
    /\ pc = "job_ret" /\ kind = "database" /\ verb = "Update"
    /\ IF ret # NoErr
       THEN FailNow("Error waiting for database update", ret)
       ELSE Finish(TRUE, plan)
    /\ UNCHANGED <<pairVars, kind, verb, plan, remote, calls, cancelled, i, tenant, oldCount>>

DatabaseDeleteBegin ==
    /\ pc = "idle" /\ kind = "database" /\ managed
    /\ verb' = "Delete"
    /\ plan' = tf
    /\ LET id == parseDatabaseID(tf.id)
       IN IF ~id.ok
          THEN FailNow("Invalid resource ID", id.err) /\ UNCHANGED calls
          ELSE Configure([EmptyRequest EXCEPT !.DeleteDatabases = <<id.parts[1]>>])
    /\ UNCHANGED <<pairVars, kind, remote, cancelled, i, tenant, oldCount>>

DatabaseDeleteConfigured ==
    /\ pc = "cfg_ret" /\ kind = "database" /\ verb = "Delete"
    /\ IF ret # NoErr
       THEN IF IsNotFound(ret) \/ IsGone(ret)
            THEN Finish(FALSE, BlankDatabase) /\ UNCHANGED calls
            ELSE FailNow("Error deleting cluster database", ret) /\ UNCHANGED calls
       ELSE IF configResp.JobID > 0
            THEN Wait(JobTimeout)
            ELSE Finish(FALSE, BlankDatabase) /\ UNCHANGED calls
    /\ UNCHANGED <<pairVars, kind, verb, plan, remote, cancelled, i, tenant, oldCount>>

DatabaseDeleteWaited ==
    /\ pc = "job_ret" /\ kind = "database" /\ verb = "Delete"
    /\ IF ret # NoErr
       THEN FailNow("Error waiting for database deletion", ret)
       ELSE Finish(FALSE, BlankDatabase)
    /\ UNCHANGED <<pairVars, kind, verb, plan, remote, calls, cancelled, i, tenant, oldCount>>

DatabaseImportState ==
    /\ pc = "idle" /\ kind = "database" /\ ~managed
    /\ \E id \in IdInputs :
          LET parts == SplitN(id, 2)
          IN /\ verb' = "ImportState"
             /\ plan' = [BlankDatabase EXCEPT !.id = id]
             /\ IF Len(parts) # 2
                THEN FailNow("Invalid import ID", Errorf("Import ID must be in the format: cluster_id/database_name", <<>>))
                ELSE Finish(TRUE, [id |-> id, cluster_id |-> parts[1], name |-> parts[2],
                                   owner |-> Unknown])
    /\ UNCHANGED <<pairVars, kind, remote, calls, cancelled, i, tenant, oldCount>>

DatabaseNext ==
    \/ DatabaseCreateBegin \/ DatabaseCreateConfigured \/ DatabaseCreateWaited
    \/ DatabaseRead
    \/ DatabaseUpdateBegin \/ DatabaseUpdateConfigured \/ DatabaseUpdateWaited
    \/ DatabaseDeleteBegin \/ DatabaseDeleteConfigured \/ DatabaseDeleteWaited
    \/ DatabaseImportState

\* ----------------------------------------------------------- extension ---
BlankExtension == [id |-> <<>>, cluster_id |-> <<>>, extension |-> <<>>, database |-> <<>>]

ExtensionPlans ==
    {[id |-> <<>>, cluster_id |-> c, extension |-> n, database |-> d] :
        c \in ClusterIDInputs, n \in NameInputs, d \in {UnknownStr, <<"x">>}}

parseExtensionID(id) == ParseID(id, 3, "expected format: cluster_id/extension/database")

IsKnownStr(v) == v # UnknownStr /\ v # NullStr

\* The database of the first extension of the list with the given name, or "".
ExtensionDatabaseIn(exts, name) ==
    LET hits == {n \in 1..Len(exts) : exts[n].Extension = name}
        first == CHOOSE n \in hits : \A m \in hits : n <= m
    IN IF hits = {} THEN <<>> ELSE exts[first].Database

ExtensionCreateState(p, database) ==
    [p EXCEPT !.database = database,
              !.id = JoinSlash(<<Itoa(Atoi(p.cluster_id).val), p.extension, database>>)]

\* Create's "Final fallback: use the plan value or cluster default db."
ExtensionCreateFallback(p, database, log) ==
    IF database # <<>>
    THEN Finish(TRUE, ExtensionCreateState(p, database)) /\ calls' = log
    ELSE IF IsKnownStr(p.database)
         THEN Finish(TRUE, ExtensionCreateState(p, p.database)) /\ calls' = log
         ELSE \E out \in GetClusterOutcomes :
                 /\ calls' = Append(log, Call("GetCluster"))
                 /\ Finish(TRUE, ExtensionCreateState(p,
                        IF out.err = NoErr THEN out.cluster.DBName ELSE <<>>))

\* Create after the configure job: from "database := ..." to State.Set.
ExtensionCreateFinish ==
    LET database == ExtensionDatabaseIn(configResp.Extensions, plan.extension)
    IN IF database # <<>>
       THEN ExtensionCreateFallback(plan, database, calls)
       ELSE \E out \in GetClusterOutcomes :
               ExtensionCreateFallback(plan,
                   IF out.err = NoErr
                   THEN ExtensionDatabaseIn(out.cluster.Extensions, plan.extension)
                   ELSE <<>>,
                   Append(calls, Call("GetCluster")))

ExtensionRequest(p) ==
    [EmptyRequest EXCEPT
        !.Extensions = <<[Extension |-> p.extension,
                          Database |-> IF IsKnownStr(p.database) THEN p.database ELSE <<>>]>>]

ExtensionCreateBegin ==
    /\ pc = "idle" /\ kind = "extension" /\ ~managed
    /\ \E p \in ExtensionPlans :
          /\ verb' = "Create"
          /\ plan' = p
          /\ IF ~Atoi(p.cluster_id).ok
             THEN FailNow("Invalid cluster ID", Errorf("strconv.Atoi", <<>>)) /\ UNCHANGED calls
             ELSE Configure(ExtensionRequest(p))
    /\ UNCHANGED <<pairVars, kind, remote, cancelled, i, tenant, oldCount>>

ExtensionCreateConfigured ==
    /\ pc = "cfg_ret" /\ kind = "extension" /\ verb = "Create"
    /\ IF ret # NoErr
       THEN FailNow("Error creating cluster extension", ret) /\ UNCHANGED calls
       ELSE IF configResp.JobID > 0
            THEN Wait(JobTimeout)
            ELSE ExtensionCreateFinish
    /\ UNCHANGED <<pairVars, kind, verb, plan, remote, cancelled, i, tenant, oldCount>>

ExtensionCreateWaited ==
    /\ pc = "job_ret" /\ kind = "extension" /\ verb = "Create"
    /\ IF ret # NoErr
       THEN FailNow("Error waiting for extension installation", ret) /\ UNCHANGED calls
       ELSE ExtensionCreateFinish
    /\ UNCHANGED <<pairVars, kind, verb, plan, remote, cancelled, i, tenant, oldCount>>

ExtensionRead ==
    /\ pc = "idle" /\ kind = "extension" /\ managed
    /\ verb' = "Read"
    /\ plan' = tf
    /\ LET id == parseExtensionID(tf.id)
       IN IF ~id.ok
          THEN FailNow("Invalid resource ID", id.err) /\ UNCHANGED calls
          ELSE \E out \in GetClusterOutcomes :
                  LET exts == out.cluster.Extensions
                      found == \E n \in 1..Len(exts) :
                                  /\ exts[n].Extension = id.parts[1]
                                  /\ exts[n].Database = id.parts[2]
                  IN /\ calls' = Append(calls, Call("GetCluster"))
                     /\ ReturnAfter(out.err, IsNotFound(out.err) \/ IsGone(out.err),
                                    "Error reading cluster", out.err = NoErr /\ found,
                                    IF out.err = NoErr /\ found
                                    THEN tf
                                    ELSE BlankExtension)
    /\ UNCHANGED <<pairVars, kind, remote, cancelled, i, tenant, oldCount>>

ExtensionUpdate ==
    /\ pc = "idle" /\ kind = "extension" /\ managed
    /\ verb' = "Update"
    /\ plan' = tf
    /\ FailNow("Update not supported", Errorf("Cluster extension attributes cannot be updated in-place.", <<>>))
    /\ UNCHANGED <<pairVars, kind, remote, calls, cancelled, i, tenant, oldCount>>

\* Extension Delete that looks the cluster up first.
ExtensionDeleteCallingRemote ==
    /\ pc = "idle" /\ kind = "extension" /\ managed
    /\ verb' = "Delete"
    /\ plan' = tf
    /\ calls' = Append(calls, Call("GetCluster"))
    /\ Finish(FALSE, BlankExtension)
    /\ UNCHANGED <<pairVars, kind, remote, cancelled, i, tenant, oldCount>>

\* Delete only logs a warning; the framework then drops the resource.
ExtensionDelete ==
    /\ pc = "idle" /\ kind = "extension" /\ managed
    /\ verb' = "Delete"
    /\ plan' = tf
    /\ Finish(FALSE, BlankExtension)
    /\ UNCHANGED <<pairVars, kind, remote, calls, cancelled, i, tenant, oldCount>>

ExtensionImportState ==
    /\ pc = "idle" /\ kind = "extension" /\ ~managed
    /\ \E id \in IdInputs :
          LET parts == SplitN(id, 3)
          IN /\ verb' = "ImportState"
             /\ plan' = [BlankExtension EXCEPT !.id = id]
             /\ IF Len(parts) # 3
                THEN FailNow("Invalid import ID", Errorf("Import ID must be in the format: cluster_id/extension/database", <<>>))
                ELSE Finish(TRUE, [id |-> id, cluster_id |-> parts[1],
                                   extension |-> parts[2], database |-> parts[3]])
    /\ UNCHANGED <<pairVars, kind, remote, calls, cancelled, i, tenant, oldCount>>

ExtensionNext ==
    \/ ExtensionCreateBegin \/ ExtensionCreateConfigured \/ ExtensionCreateWaited
    \/ ExtensionRead \/ ExtensionUpdate \/ ExtensionDelete \/ ExtensionImportState

\* --------------------------------------------------------------- grant ---
BlankGrant ==
    [id |-> <<>>, cluster_id |-> <<>>, username |-> <<>>, database |-> <<>>, access |-> ""]

AccessInputs == {"read", "write"}

GrantPlans ==
    {[id |-> <<>>, cluster_id |-> c, username |-> u, database |-> d, access |-> a] :
        c \in ClusterIDInputs, u \in NameInputs, d \in NameInputs, a \in AccessInputs}

parseGrantID(id) == ParseID(id, 3, "expected format: cluster_id/username/database")

GrantRequest(p) ==
    [EmptyRequest EXCEPT
        !.Grants = <<[Username |-> p.username, Database |-> p.database, Access |-> p.access]>>]

GrantCreateState(p) ==
    [p EXCEPT !.id = JoinSlash(<<Itoa(Atoi(p.cluster_id).val), p.username, p.database>>)]

GrantCreateBegin ==
    /\ pc = "idle" /\ kind = "grant" /\ ~managed
    /\ \E p \in GrantPlans :
          /\ verb' = "Create"
          /\ plan' = p
          /\ IF ~Atoi(p.cluster_id).ok
             THEN FailNow("Invalid cluster ID", Errorf("strconv.Atoi", <<>>)) /\ UNCHANGED calls
             ELSE Configure(GrantRequest(p))
    /\ UNCHANGED <<pairVars, kind, remote, cancelled, i, tenant, oldCount>>

GrantCreateConfigured ==
    /\ pc = "cfg_ret" /\ kind = "grant" /\ verb = "Create"
    /\ IF ret # NoErr
       THEN FailNow("Error creating cluster grant", ret) /\ UNCHANGED calls
       ELSE IF configResp.JobID > 0
            THEN Wait(JobTimeout)
            ELSE Finish(TRUE, GrantCreateState(plan)) /\ UNCHANGED calls
    /\ UNCHANGED <<pairVars, kind, verb, plan, remote, cancelled, i, tenant, oldCount>>

GrantCreateWaited ==
    /\ pc = "job_ret" /\ kind = "grant" /\ verb = "Create"
    /\ IF ret # NoErr
       THEN FailNow("Error waiting for grant creation", ret)
       ELSE Finish(TRUE, GrantCreateState(plan))
    /\ UNCHANGED <<pairVars, kind, verb, plan, remote, calls, cancelled, i, tenant, oldCount>>

GrantRead ==
    /\ pc = "idle" /\ kind = "grant" /\ managed
    /\ verb' = "Read"
    /\ plan' = tf
    /\ LET id == parseGrantID(tf.id)
       IN IF ~id.ok
          THEN FailNow("Invalid resource ID", id.err) /\ UNCHANGED calls
          ELSE \E out \in GetClusterOutcomes :
                  LET gs == out.cluster.Grants
                      hits == {n \in 1..Len(gs) : /\ gs[n].Username = id.parts[1]
                                                  /\ gs[n].Database = id.parts[2]}
                      first == CHOOSE n \in hits : \A m \in hits : n <= m
                  IN /\ calls' = Append(calls, Call("GetCluster"))
                     /\ ReturnAfter(out.err, IsNotFound(out.err) \/ IsGone(out.err),
                                    "Error reading cluster", out.err = NoErr /\ hits # {},
                                    IF out.err = NoErr /\ hits # {}
                                    THEN [tf EXCEPT !.access = gs[first].Access]
                                    ELSE BlankGrant)
    /\ UNCHANGED <<pairVars, kind, remote, cancelled, i, tenant, oldCount>>

GrantUpdateBegin ==
    /\ pc = "idle" /\ kind = "grant" /\ managed
    /\ \E a \in AccessInputs \ {tf.access} :
          LET p == [tf EXCEPT !.access = a]
          IN /\ verb' = "Update"
             /\ plan' = p
             /\ IF ~Atoi(p.cluster_id).ok
                THEN FailNow("Invalid cluster ID", Errorf("strconv.Atoi", <<>>))
                     /\ UNCHANGED calls
                ELSE Configure(GrantRequest(p))
    /\ UNCHANGED <<pairVars, kind, remote, cancelled, i, tenant, oldCount>>

GrantUpdateConfigured ==
    /\ pc = "cfg_ret" /\ kind = "grant" /\ verb = "Update"
    /\ IF ret # NoErr
       THEN FailNow("Error updating cluster grant", ret) /\ UNCHANGED calls
       ELSE IF configResp.JobID > 0
            THEN Wait(JobTimeout)
            ELSE Finish(TRUE, plan) /\ UNCHANGED calls
    /\ UNCHANGED <<pairVars, kind, verb, plan, remote, cancelled, i, tenant, oldCount>>

GrantUpdateWaited ==
    /\ pc = "job_ret" /\ kind = "grant" /\ verb = "Update"
    /\ IF ret # NoErr
       THEN FailNow("Error waiting for grant update", ret)
       ELSE Finish(TRUE, plan)
    /\ UNCHANGED <<pairVars, kind, verb, plan, remote, calls, cancelled, i, tenant, oldCount>>

\* Delete only logs a warning; the framework then drops the resource.
GrantDelete ==
    /\ pc = "idle" /\ kind = "grant" /\ managed
    /\ verb' = "Delete"
    /\ plan' = tf
    /\ Finish(FALSE, BlankGrant)
    /\ UNCHANGED <<pairVars, kind, remote, calls, cancelled, i, tenant, oldCount>>

GrantImportState ==
    /\ pc = "idle" /\ kind = "grant" /\ ~managed
    /\ \E id \in IdInputs :
          LET parts == SplitN(id, 3)
          IN /\ verb' = "ImportState"
             /\ plan' = [BlankGrant EXCEPT !.id = id]
             /\ IF Len(parts) # 3
                THEN FailNow("Invalid import ID", Errorf("Import ID must be in the format: cluster_id/username/database", <<>>))
                ELSE Finish(TRUE, [id |-> id, cluster_id |-> parts[1], username |-> parts[2],
                                   database |-> parts[3], access |-> Unknown])
    /\ UNCHANGED <<pairVars, kind, remote, calls, cancelled, i, tenant, oldCount>>

GrantNext ==
    \/ GrantCreateBegin \/ GrantCreateConfigured \/ GrantCreateWaited
    \/ GrantRead
    \/ GrantUpdateBegin \/ GrantUpdateConfigured \/ GrantUpdateWaited
    \/ GrantDelete \/ GrantImportState

\* ------------------------------------------------------------ firewall ---
AllowAll == "0.0.0.0/0"

BlankFirewall == [id |-> <<>>, cluster_id |-> <<>>, source_ips |-> {}]

IPSets == {{"10.0.0.1/32"}, {"10.0.0.1/32", "10.0.0.2/32"}}

\* plan.SourceIPs.ElementsAs(ctx, &sourceIPs, false): the set as a slice.
RECURSIVE ElementsAs(_)
ElementsAs(set) ==
    IF set = {} THEN <<>>
    ELSE LET x == CHOOSE y \in set : TRUE IN <<x>> \o ElementsAs(set \ {x})

\* A firewall request that leaves replace_ips unset.
FirewallMergeRequest(sourceIPs) ==
    [EmptyRequest EXCEPT !.SourceIPs = sourceIPs]

FirewallRequest(sourceIPs) ==
    [EmptyRequest EXCEPT !.SourceIPs = sourceIPs, !.ReplaceIPs = TRUE]

FirewallCreateBegin ==
    /\ pc = "idle" /\ kind = "firewall" /\ ~managed
    /\ \E c \in ClusterIDInputs, ips \in IPSets :
          /\ verb' = "Create"
          /\ plan' = [id |-> <<>>, cluster_id |-> c, source_ips |-> ips]
          /\ IF ~Atoi(c).ok
             THEN FailNow("Invalid cluster ID", Errorf("strconv.Atoi", <<>>)) /\ UNCHANGED calls
             ELSE Configure(FirewallRequest(ElementsAs(ips)))
    /\ UNCHANGED <<pairVars, kind, remote, cancelled, i, tenant, oldCount>>

FirewallCreateConfigured ==
    /\ pc = "cfg_ret" /\ kind = "firewall" /\ verb = "Create"
    /\ IF ret # NoErr
       THEN FailNow("Error setting cluster firewall", ret)
       ELSE Finish(TRUE, [plan EXCEPT !.id = plan.cluster_id])
    /\ UNCHANGED <<pairVars, kind, verb, plan, remote, calls, cancelled, i, tenant, oldCount>>

FirewallRead ==
    /\ pc = "idle" /\ kind = "firewall" /\ managed
    /\ verb' = "Read"
    /\ plan' = tf
    /\ IF ~Atoi(tf.cluster_id).ok
       THEN FailNow("Invalid cluster ID", Errorf("strconv.Atoi", <<>>)) /\ UNCHANGED calls
       ELSE \E out \in GetClusterOutcomes :
               /\ calls' = Append(calls, Call("GetCluster"))
               /\ IF out.err # NoErr
                  THEN IF IsNotFound(out.err) \/ IsGone(out.err)
                       THEN Finish(FALSE, BlankFirewall)
                       ELSE FailNow("Error reading cluster", out.err)
                  ELSE Finish(TRUE, [tf EXCEPT !.source_ips = out.cluster.SourceIPs])
    /\ UNCHANGED <<pairVars, kind, remote, cancelled, i, tenant, oldCount>>

FirewallUpdateBegin ==
    /\ pc = "idle" /\ kind = "firewall" /\ managed
    /\ \E ips \in IPSets \ {tf.source_ips} :
          /\ verb' = "Update"
          /\ plan' = [tf EXCEPT !.source_ips = ips]
          /\ IF ~Atoi(tf.cluster_id).ok
             THEN FailNow("Invalid cluster ID", Errorf("strconv.Atoi", <<>>)) /\ UNCHANGED calls
             ELSE Configure(FirewallRequest(ElementsAs(ips)))
    /\ UNCHANGED <<pairVars, kind, remote, cancelled, i, tenant, oldCount>>

FirewallUpdateConfigured ==
    /\ pc = "cfg_ret" /\ kind = "firewall" /\ verb = "Update"
    /\ IF ret # NoErr
       THEN FailNow("Error updating cluster firewall", ret)
       ELSE Finish(TRUE, plan)
    /\ UNCHANGED <<pairVars, kind, verb, plan, remote, calls, cancelled, i, tenant, oldCount>>

FirewallDeleteBegin ==
    /\ pc = "idle" /\ kind = "firewall" /\ managed
    /\ verb' = "Delete"
    /\ plan' = tf
    /\ IF ~Atoi(tf.cluster_id).ok
       THEN FailNow("Invalid cluster ID", Errorf("strconv.Atoi", <<>>)) /\ UNCHANGED calls
       ELSE Configure(FirewallRequest(<<AllowAll>>))
    /\ UNCHANGED <<pairVars, kind, remote, cancelled, i, tenant, oldCount>>

FirewallDeleteConfigured ==
    /\ pc = "cfg_ret" /\ kind = "firewall" /\ verb = "Delete"
    /\ IF ret # NoErr /\ ~(IsNotFound(ret) \/ IsGone(ret))
       THEN FailNow("Error resetting cluster firewall", ret)
       ELSE Finish(FALSE, BlankFirewall)
    /\ UNCHANGED <<pairVars, kind, verb, plan, remote, calls, cancelled, i, tenant, oldCount>>

FirewallImportState ==
    /\ pc = "idle" /\ kind = "firewall" /\ ~managed
    /\ \E id \in IdInputs :
          /\ verb' = "ImportState"
          /\ plan' = [BlankFirewall EXCEPT !.id = id]
          /\ Finish(TRUE, [id |-> id, cluster_id |-> id, source_ips |-> {}])
    /\ UNCHANGED <<pairVars, kind, remote, calls, cancelled, i, tenant, oldCount>>

FirewallNext ==
    \/ FirewallCreateBegin \/ FirewallCreateConfigured
    \/ FirewallRead
    \/ FirewallUpdateBegin \/ FirewallUpdateConfigured
    \/ FirewallDeleteBegin \/ FirewallDeleteConfigured
    \/ FirewallImportState

\* ------------------------------------------------------- backup config ---
BlankBackupConfig == [id |-> <<>>, cluster_id |-> <<>>, enabled |-> FALSE]

\* UpdateBackupConfig as one request: an error, or the stored configuration.
UpdateBackupConfigOutcomes(enabled) ==
    {[err |-> e, config |-> [Enabled |-> enabled]] :
        e \in RequestErrors \cup (IF cancelled THEN {} ELSE {NoErr})}

\* Create and Update: buildUpdateRequest, UpdateBackupConfig,
\* mapBackupConfigToState, State.Set.
BackupConfigApply(p, summary) ==
    IF ~Atoi(p.cluster_id).ok
    THEN FailNow("Invalid cluster ID", Errorf("strconv.Atoi", <<>>))
         /\ UNCHANGED <<calls, remote>>
    ELSE \E out \in UpdateBackupConfigOutcomes(p.enabled) :
            /\ calls' = Append(calls, Call("UpdateBackupConfig"))
            /\ IF out.err # NoErr
               THEN FailNow(summary, out.err) /\ UNCHANGED remote
               ELSE /\ remote' = [remote EXCEPT !.BackupEnabled = out.config.Enabled]
                    /\ Finish(TRUE, [p EXCEPT !.id = p.cluster_id,
                                              !.enabled = out.config.Enabled])

BackupConfigCreate ==
    /\ pc = "idle" /\ kind = "backup_config" /\ ~managed
    /\ \E c \in ClusterIDInputs, en \in BOOLEAN :
          LET p == [id |-> <<>>, cluster_id |-> c, enabled |-> en]
          IN /\ verb' = "Create"
             /\ plan' = p
             /\ BackupConfigApply(p, "Error setting backup config")
    /\ UNCHANGED <<pairVars, kind, cancelled, i, tenant, oldCount>>

BackupConfigRead ==
    /\ pc = "idle" /\ kind = "backup_config" /\ managed
    /\ verb' = "Read"
    /\ plan' = tf
    /\ IF ~Atoi(tf.cluster_id).ok
       THEN FailNow("Invalid cluster ID", Errorf("strconv.Atoi", <<>>)) /\ UNCHANGED calls
       ELSE \E e \in RequestErrors \cup {NoErr} :
               /\ calls' = Append(calls, Call("GetBackupConfig"))
               /\ IF e # NoErr
                  THEN IF IsNotFound(e) \/ IsGone(e)
                       THEN Finish(FALSE, BlankBackupConfig)
                       ELSE FailNow("Error reading backup config", e)
                  ELSE Finish(TRUE, [tf EXCEPT !.enabled = remote.BackupEnabled])
    /\ UNCHANGED <<pairVars, kind, remote, cancelled, i, tenant, oldCount>>

BackupConfigUpdate ==
    /\ pc = "idle" /\ kind = "backup_config" /\ managed
    /\ \E en \in BOOLEAN :
          LET p == [tf EXCEPT !.enabled = en]
          IN /\ verb' = "Update"
             /\ plan' = p
             /\ BackupConfigApply(p, "Error updating backup config")
    /\ UNCHANGED <<pairVars, kind, cancelled, i, tenant, oldCount>>

BackupConfigDelete ==
    /\ pc = "idle" /\ kind = "backup_config" /\ managed
    /\ verb' = "Delete"
    /\ plan' = tf
    /\ IF ~Atoi(tf.cluster_id).ok
       THEN FailNow("Invalid cluster ID", Errorf("strconv.Atoi", <<>>))
            /\ UNCHANGED <<calls, remote>>
       ELSE \E out \in UpdateBackupConfigOutcomes(FALSE) :
               /\ calls' = Append(calls, Call("UpdateBackupConfig"))
               /\ remote' = IF out.err = NoErr THEN [remote EXCEPT !.BackupEnabled = FALSE]
                             ELSE remote
               /\ ReturnAfter(out.err, IsNotFound(out.err) \/ IsGone(out.err),
                              "Error disabling backups", FALSE, BlankBackupConfig)
    /\ UNCHANGED <<pairVars, kind, cancelled, i, tenant, oldCount>>

BackupConfigImportState ==
    /\ pc = "idle" /\ kind = "backup_config" /\ ~managed
    /\ \E id \in IdInputs :
          /\ verb' = "ImportState"
          /\ plan' = [BlankBackupConfig EXCEPT !.id = id]
          /\ Finish(TRUE, [id |-> id, cluster_id |-> id, enabled |-> FALSE])
    /\ UNCHANGED <<pairVars, kind, remote, calls, cancelled, i, tenant, oldCount>>

BackupConfigNext ==
    \/ BackupConfigCreate \/ BackupConfigRead \/ BackupConfigUpdate
    \/ BackupConfigDelete \/ BackupConfigImportState

\* ------------------------------------------------------------- cluster ---
BlankCluster == [id |-> <<>>, node_count |-> 0]

\* A cluster of one node, as the remote has it once provisioned.
InitRemote ==
    [TenantID |-> <<"t">>, NodeCount |-> 1, pending |-> "none", Status |-> "active",
     SourceIPs |-> {AllowAll}, BackupEnabled |-> FALSE,
     Users |-> <<>>, Databases |-> <<>>, Extensions |-> <<>>, Grants |-> <<>>]

\* Node names counted from zero.
NodeNameZeroBased(tenantID, n) == tenantID \o <<"-", "d", "b", "-">> \o Itoa(n - 1)

\* fmt.Sprintf("%s-db-%d", cluster.TenantID, i)
NodeName(tenantID, n) == tenantID \o <<"-", "d", "b", "-">> \o Itoa(n)

\* AddNode as one request.  The remote accepts it only while it has room
\* and no node job is in progress; the job it starts ends when a poll sees it.
AddNodeOutcomes ==
    RequestErrors \cup
    (IF /\ ~cancelled /\ remote.Status = "active"
        /\ remote.NodeCount < MaxNodes /\ remote.pending = "none"
     THEN {NoErr} ELSE {})

\* RemoveNode as one request.  The remote accepts it only while it has more
\* than one node and no node job is in progress; which names it accepts is
\* not constrained.
RemoveNodeOutcomes(name) ==
    RequestErrors \cup
    (IF /\ ~cancelled /\ remote.Status = "active"
        /\ remote.NodeCount > 1 /\ remote.pending = "none"
     THEN {NoErr} ELSE {})

\* mapClusterToState for the attributes of the model; c.ID is the id asked for.
mapClusterToState(c, id) == [id |-> Itoa(id), node_count |-> c.NodeCount]

\* Update's "Refresh state from API" to State.Set.
ClusterRefresh ==
    \E out \in GetClusterOutcomes :
       /\ calls' = Append(calls, Call("GetCluster"))
       /\ IF out.err # NoErr
          THEN FailNow("Error reading cluster after update", out.err)
          ELSE Finish(TRUE, mapClusterToState(out.cluster, Atoi(tf.id).val))

ClusterRead ==
    /\ pc = "idle" /\ kind = "cluster" /\ managed
    /\ verb' = "Read"
    /\ plan' = tf
    /\ IF ~Atoi(tf.id).ok
       THEN FailNow("Invalid cluster ID", Errorf("strconv.Atoi", <<>>)) /\ UNCHANGED calls
       ELSE \E out \in GetClusterOutcomes :
               /\ calls' = Append(calls, Call("GetCluster"))
               /\ IF out.err # NoErr
                  THEN IF IsNotFound(out.err) \/ IsGone(out.err)
                       THEN Finish(FALSE, BlankCluster)
                       ELSE FailNow("Error reading cluster", out.err)
                  ELSE Finish(TRUE, mapClusterToState(out.cluster, Atoi(tf.id).val))
    /\ UNCHANGED <<pairVars, kind, remote, cancelled, i, tenant, oldCount>>

\* A node count that equals every other one.
CountsDifferAlways(newCount, oldCnt) == TRUE

\* if newCount != oldCount
CountsDiffer(newCount, oldCnt) == newCount # oldCnt

\* Update up to the first loop iteration: parse the id, compare the counts,
\* and for a scale-in read the cluster for its tenant id.
ClusterUpdateBegin ==
    /\ pc = "idle" /\ kind = "cluster" /\ managed
    /\ \E newCount \in 1..MaxNodes :
          /\ verb' = "Update"
          /\ plan' = [tf EXCEPT !.node_count = newCount]
          /\ IF ~Atoi(tf.id).ok
             THEN /\ FailNow("Invalid cluster ID", Errorf("strconv.Atoi", <<>>))
                  /\ UNCHANGED <<calls, i, tenant, oldCount>>
             ELSE /\ oldCount' = tf.node_count
                  /\ IF ~CountsDiffer(newCount, tf.node_count)
                     THEN ClusterRefresh /\ UNCHANGED <<i, tenant>>
                     ELSE IF newCount > tf.node_count
                     THEN /\ pc' = "scale_out"
                          /\ i' = tf.node_count
                          /\ UNCHANGED <<managed, tf, diag, loopVars, calls, tenant>>
                     ELSE \E out \in GetClusterOutcomes :
                             /\ calls' = Append(calls, Call("GetCluster"))
                             /\ IF out.err # NoErr
                                THEN FailNow("Error reading cluster", out.err)
                                     /\ UNCHANGED <<i, tenant>>
                                ELSE /\ pc' = "scale_in"
                                     /\ i' = tf.node_count
                                     /\ tenant' = out.cluster.TenantID
                                     /\ UNCHANGED <<managed, tf, diag, loopVars>>
    /\ UNCHANGED <<pairVars, kind, remote, cancelled>>

\* Scale-out that goes on to the next node when AddNode fails.
ClusterScaleOutContinuing ==
    /\ pc = "scale_out"
    /\ IF i < plan.node_count
       THEN \E e \in AddNodeOutcomes :
               IF e # NoErr
               THEN /\ calls' = Append(calls, Call("AddNode"))
                    /\ pc' = "scale_out"
                    /\ i' = i + 1
                    /\ UNCHANGED <<managed, tf, diag, loopVars, remote>>
               ELSE /\ remote' = [remote EXCEPT !.pending = "add"]
                    /\ JobWaitFrame(ScaleJobTimeout)
                    /\ calls' = calls \o <<Call("AddNode"), Call("WaitForJobComplete")>>
                    /\ UNCHANGED <<managed, tf, diag, i>>
       ELSE ClusterRefresh /\ UNCHANGED <<remote, i>>
    /\ UNCHANGED <<pairVars, kind, verb, plan, cancelled, tenant, oldCount>>

\* The test of the scale-out loop and, inside it, AddNode up to the call of
\* WaitForJobComplete; after the loop, the refresh.
ClusterScaleOut ==
    /\ pc = "scale_out"
    /\ IF i < plan.node_count
       THEN \E e \in AddNodeOutcomes :
               IF e # NoErr
               THEN /\ calls' = Append(calls, Call("AddNode"))
                    /\ FailNow("Error adding node", e)
                    /\ UNCHANGED remote
               ELSE /\ remote' = [remote EXCEPT !.pending = "add"]
                    /\ JobWaitFrame(ScaleJobTimeout)
                    /\ calls' = calls \o <<Call("AddNode"), Call("WaitForJobComplete")>>
                    /\ UNCHANGED <<managed, tf, diag>>
       ELSE ClusterRefresh /\ UNCHANGED remote
    /\ UNCHANGED <<pairVars, kind, verb, plan, cancelled, i, tenant, oldCount>>

\* The test of the scale-in loop and, inside it, RemoveNode up to the call
\* of WaitForJobComplete; after the loop, the refresh.
ClusterScaleIn ==
    /\ pc = "scale_in"
    /\ IF i > plan.node_count
       THEN LET nodeName == NodeName(tenant, i)
                call == [Call("RemoveNode") EXCEPT !.name = nodeName]
            IN \E e \in RemoveNodeOutcomes(nodeName) :
                  IF e # NoErr
                  THEN /\ calls' = Append(calls, call)
                       /\ FailNow("Error removing node", e)
                       /\ UNCHANGED remote
                  ELSE /\ remote' = [remote EXCEPT !.pending = "remove"]
                       /\ JobWaitFrame(ScaleJobTimeout)
                       /\ calls' = calls \o <<call, Call("WaitForJobComplete")>>
                       /\ UNCHANGED <<managed, tf, diag>>
       ELSE ClusterRefresh /\ UNCHANGED remote
    /\ UNCHANGED <<pairVars, kind, verb, plan, cancelled, i, tenant, oldCount>>

\* The loops going on whatever WaitForJobComplete returned.
ClusterScaleWaitedIgnoringError ==
    /\ pc = "job_ret" /\ kind = "cluster" /\ verb = "Update"
    /\ pc' = IF plan.node_count > oldCount THEN "scale_out" ELSE "scale_in"
    /\ i' = IF plan.node_count > oldCount THEN i + 1 ELSE i - 1
    /\ DropFrame
    /\ UNCHANGED <<managed, tf, diag>>
    /\ UNCHANGED <<pairVars, kind, verb, plan, remote, calls, cancelled, tenant, oldCount>>

\* WaitForJobComplete has returned inside one of the two loops.
ClusterScaleWaited ==
    /\ pc = "job_ret" /\ kind = "cluster" /\ verb = "Update"
    /\ IF plan.node_count > oldCount
       THEN IF ret # NoErr
            THEN FailNow("Error waiting for add-node job", ret) /\ UNCHANGED i
            ELSE /\ pc' = "scale_out"
                 /\ i' = i + 1
                 /\ DropFrame
                 /\ UNCHANGED <<managed, tf, diag>>
       ELSE IF ret # NoErr
            THEN FailNow("Error waiting for remove-node job", ret) /\ UNCHANGED i
            ELSE /\ pc' = "scale_in"
                 /\ i' = i - 1
                 /\ DropFrame
                 /\ UNCHANGED <<managed, tf, diag>>
    /\ UNCHANGED <<pairVars, kind, verb, plan, remote, calls, cancelled, tenant, oldCount>>

\* The statuses the remote may report of a cluster it is provisioning, and
\* of one it is deleting.
ProvisioningStatuses == {"provisioning", "active", "failed", "deleting"}
DeletingStatuses == {"deleting", "deleted", "failed"}

\* One GetCluster of a poller: a failing request, or the cluster with one of
\* the statuses.
GetClusterPolls(statuses) ==
    {Attempt(st, EmptyResponse, <<>>) : st \in FailureStatuses} \cup
    {[Attempt(200, EmptyResponse, <<>>) EXCEPT !.cluster = s] :
        s \in IF cancelled THEN {} ELSE statuses}

\* The cluster's error message when its provisioning failed.
ProvisionErrorMessage == <<"provision">>

\* WaitForClusterActive after one GetCluster that returned (status, err).
WaitForClusterActiveDecide(err, status) ==
    IF err # NoErr
    THEN [next |-> "return", err |-> WrapErrorf("polling cluster status", err)]
    ELSE CASE status = "active" -> [next |-> "return", err |-> NoErr]
           [] status = "failed" ->
                [next |-> "return",
                 err |-> Errorf("cluster provisioning failed", ProvisionErrorMessage)]
           [] status = "provisioning" -> [next |-> "sleep", err |-> NoErr]
           [] OTHER ->
                [next |-> "return", err |-> Errorf("unexpected cluster status", <<status>>)]

\* Create up to the call of WaitForClusterActive.
ClusterCreateBegin ==
    /\ pc = "idle" /\ kind = "cluster" /\ ~managed
    /\ \E n \in 1..MaxNodes :
          /\ verb' = "Create"
          /\ plan' = [BlankCluster EXCEPT !.node_count = n]
          /\ \E e \in RequestErrors \cup (IF cancelled THEN {} ELSE {NoErr}) :
                IF e # NoErr
                THEN /\ calls' = Append(calls, Call("ProvisionCluster"))
                     /\ FailNow("Error creating cluster", e)
                     /\ UNCHANGED remote
                ELSE /\ remote' = [InitRemote EXCEPT !.NodeCount = n,
                                                     !.Status = "provisioning"]
                     /\ calls' = calls \o <<Call("ProvisionCluster"),
                                            Call("WaitForClusterActive")>>
                     /\ pc' = "act_call"
                     /\ timeout' = ActiveTimeout
                     /\ elapsed' = 0
                     /\ attempts' = 0
                     /\ conflicts' = 0
                     /\ last' = NoAttempt
                     /\ ret' = NoErr
                     /\ UNCHANGED <<managed, tf, diag, cfgReq, configResp>>
    /\ UNCHANGED <<pairVars, kind, cancelled, i, tenant, oldCount>>

\* One iteration of WaitForClusterActive's loop: the deadline test, the
\* GetCluster, and what follows up to the return or the select.
ClusterActivePoll ==
    /\ pc = "act_call"
    /\ IF ~Before(elapsed, timeout)
       THEN /\ pc' = "act_ret"
            /\ ret' = Errorf("timeout waiting for cluster to become active", <<>>)
            /\ UNCHANGED <<elapsed, attempts, last, remote>>
       ELSE \E d \in Latencies, out \in GetClusterPolls(ProvisioningStatuses) :
               LET dec == WaitForClusterActiveDecide(out.err, out.cluster)
               IN /\ elapsed' = elapsed + d
                  /\ attempts' = attempts + 1
                  /\ last' = out
                  /\ remote' = IF out.status = 200
                                THEN [remote EXCEPT !.Status = out.cluster] ELSE remote
                  /\ IF dec.next = "return"
                     THEN pc' = "act_ret" /\ ret' = dec.err
                     ELSE pc' = "act_sleep" /\ UNCHANGED ret
    /\ UNCHANGED <<pairVars, kind, managed, tf, verb, plan, timeout, conflicts, cfgReq, configResp,
                   calls, diag, cancelled, i, tenant, oldCount>>

\* WaitForClusterActive's select.
ClusterActiveSleep ==
    /\ pc = "act_sleep"
    /\ IF cancelled
       THEN pc' = "act_ret" /\ ret' = CtxErr /\ UNCHANGED elapsed
       ELSE pc' = "act_call" /\ elapsed' = elapsed + ActivePollInterval /\ UNCHANGED ret
    /\ UNCHANGED <<pairVars, kind, managed, tf, remote, verb, plan, timeout, attempts, conflicts,
                   last, cfgReq, configResp, calls, diag, cancelled, i, tenant, oldCount>>

\* Create after WaitForClusterActive: the cluster it returned is the one of
\* its last poll; provisionResp.ID is the id of the remote cluster.
ClusterCreateWaited ==
    /\ pc = "act_ret" /\ kind = "cluster" /\ verb = "Create"
    /\ IF ret # NoErr
       THEN FailNow("Error waiting for cluster", ret)
       ELSE Finish(TRUE, mapClusterToState(ClusterView(remote), 1))
    /\ UNCHANGED <<pairVars, kind, verb, plan, remote, calls, cancelled, i, tenant, oldCount>>

\* WaitForClusterDeleted that takes any answered fetch for the end.
WaitForClusterDeletedAtOnce(err, status) ==
    IF err # NoErr /\ ~(IsNotFound(err) \/ IsGone(err))
    THEN [next |-> "return", err |-> WrapErrorf("polling cluster deletion status", err)]
    ELSE [next |-> "return", err |-> NoErr]

\* WaitForClusterDeleted after one GetCluster that returned (status, err).
WaitForClusterDeletedDecide(err, status) ==
    IF err # NoErr
    THEN IF IsNotFound(err) \/ IsGone(err)
         THEN [next |-> "return", err |-> NoErr]
         ELSE [next |-> "return", err |-> WrapErrorf("polling cluster deletion status", err)]
    ELSE IF status = "deleted" THEN [next |-> "return", err |-> NoErr]
    ELSE [next |-> "sleep", err |-> NoErr]

\* Delete up to the call of WaitForClusterDeleted.
ClusterDeleteBegin ==
    /\ pc = "idle" /\ kind = "cluster" /\ managed
    /\ verb' = "Delete"
    /\ plan' = tf
    /\ IF ~Atoi(tf.id).ok
       THEN /\ FailNow("Invalid cluster ID", Errorf("strconv.Atoi", <<>>))
            /\ UNCHANGED <<calls, remote>>
       ELSE \E e \in RequestErrors \cup {NoErr} :
               IF e # NoErr
               THEN /\ calls' = Append(calls, Call("DeleteCluster"))
                    /\ UNCHANGED remote
                    /\ ReturnAfter(e, IsNotFound(e) \/ IsGone(e),
                                   "Error deleting cluster", FALSE, BlankCluster)
               ELSE /\ remote' = [remote EXCEPT !.Status = "deleting"]
                    /\ calls' = calls \o <<Call("DeleteCluster"), Call("WaitForClusterDeleted")>>
                    /\ pc' = "del_call"
                    /\ timeout' = DeleteTimeout
                    /\ elapsed' = 0
                    /\ attempts' = 0
                    /\ conflicts' = 0
                    /\ last' = NoAttempt
                    /\ ret' = NoErr
                    /\ UNCHANGED <<managed, tf, diag, cfgReq, configResp>>
    /\ UNCHANGED <<pairVars, kind, cancelled, i, tenant, oldCount>>

\* One iteration of WaitForClusterDeleted's loop: the deadline test, the
\* GetCluster, and what follows up to the return or the select.
ClusterDeletedPoll ==
    /\ pc = "del_call"
    /\ IF ~Before(elapsed, timeout)
       THEN /\ pc' = "del_ret"
            /\ ret' = Errorf("timeout waiting for cluster to be deleted", <<>>)
            /\ UNCHANGED <<elapsed, attempts, last, remote>>
       ELSE \E d \in Latencies,
               out \in GetClusterPolls(DeletingStatuses) :
               LET dec == WaitForClusterDeletedDecide(out.err, out.cluster)
               IN /\ elapsed' = elapsed + d
                  /\ attempts' = attempts + 1
                  /\ last' = out
                  /\ remote' = IF out.status = 200
                                THEN [remote EXCEPT !.Status = out.cluster] ELSE remote
                  /\ IF dec.next = "return"
                     THEN pc' = "del_ret" /\ ret' = dec.err
                     ELSE pc' = "del_sleep" /\ UNCHANGED ret
    /\ UNCHANGED <<pairVars, kind, managed, tf, verb, plan, timeout, conflicts, cfgReq, configResp,
                   calls, diag, cancelled, i, tenant, oldCount>>

\* WaitForClusterDeleted's select.
ClusterDeletedSleep ==
    /\ pc = "del_sleep"
    /\ IF cancelled
       THEN pc' = "del_ret" /\ ret' = CtxErr /\ UNCHANGED elapsed
       ELSE pc' = "del_call" /\ elapsed' = elapsed + DeletePollInterval /\ UNCHANGED ret
    /\ UNCHANGED <<pairVars, kind, managed, tf, remote, verb, plan, timeout, attempts, conflicts,
                   last, cfgReq, configResp, calls, diag, cancelled, i, tenant, oldCount>>

ClusterDeleteWaited ==
    /\ pc = "del_ret" /\ kind = "cluster" /\ verb = "Delete"
    /\ IF ret # NoErr
       THEN FailNow("Error waiting for cluster deletion", ret)
       ELSE Finish(FALSE, BlankCluster)
    /\ UNCHANGED <<pairVars, kind, verb, plan, remote, calls, cancelled, i, tenant, oldCount>>

\* resource.ImportStatePassthroughID
ClusterImportState ==
    /\ pc = "idle" /\ kind = "cluster" /\ ~managed
    /\ \E id \in IdInputs :
          /\ verb' = "ImportState"
          /\ plan' = [BlankCluster EXCEPT !.id = id]
          /\ Finish(TRUE, [BlankCluster EXCEPT !.id = id])
    /\ UNCHANGED <<pairVars, kind, remote, calls, cancelled, i, tenant, oldCount>>

ClusterNext ==
    \/ ClusterCreateBegin \/ ClusterActivePoll \/ ClusterActiveSleep \/ ClusterCreateWaited
    \/ ClusterRead
    \/ ClusterUpdateBegin \/ ClusterScaleOut \/ ClusterScaleIn \/ ClusterScaleWaited
    \/ ClusterDeleteBegin \/ ClusterDeletedPoll \/ ClusterDeletedSleep \/ ClusterDeleteWaited
    \/ ClusterImportState

\* ------------------------------------------------------ two instances ---
\* The Create handlers of two user resources of one cluster, which the host
\* runs concurrently.  A request is answered within the instant it is made;
\* time passes in Tick, by the ten seconds both loops sleep.  The remote
\* keeps one configuration job at a time and answers conflict while it runs.
Instances == {1, 2}

PairUsername(n) == IF n = 1 THEN <<"x">> ELSE <<"1">>

\* The single-instance variables, which PairSpec leaves at rest.
soloVars == <<kind, managed, tf, verb, plan, pc, timeout, elapsed, attempts, conflicts, last,
              cfgReq, ret, configResp, calls, diag, cancelled, i, tenant, oldCount>>

\* How long the remote may run a configuration job, in seconds.
JobDurations ==
    {RetryInterval, ConfigureMaxWait, ConfigureMaxWait + RetryInterval, JobTimeout}

\* The job slot: the job in it, and what became of each instance's job
\* (fate) and whether every job so far was given at most ConfigureMaxWait
\* seconds and completed (inTime).
NoJob ==
    [owner |-> 0, status |-> "none", left |-> 0, inTime |-> TRUE,
     fate |-> [n \in Instances |-> "none"]]

IdleInstance(n) ==
    [pc |-> "idle",
     plan |-> [id |-> <<>>, cluster_id |-> <<"1">>, username |-> PairUsername(n),
               password |-> Unknown],
     timeout |-> 0, elapsed |-> 0, conflicts |-> 0,
     configResp |-> EmptyResponse, ret |-> NoErr, diag |-> NoDiag, managed |-> FALSE,
     tf |-> BlankUser]

\* GET /api/ha/{id}/jobs?active=true.
ActiveJobs == IF slot.status = "none" THEN <<>> ELSE <<Job(slot.owner, slot.status)>>

\* POST /api/ha/{id}/configure by instance n: conflict while a job runs;
\* otherwise the request is applied at once (job id zero) or a job is spawned.
PairConfigureAnswers(n, req) ==
    IF slot.status = "running"
    THEN {[out |-> Attempt(StatusConflict, EmptyResponse, <<>>), slot |-> slot]}
    ELSE {[out |-> Attempt(200, [r EXCEPT !.JobID = IF @ = 0 THEN 0 ELSE n], <<>>),
           slot |-> IF r.JobID = 0 THEN slot
                    ELSE [slot EXCEPT !.owner = n, !.status = "running", !.left = d,
                                      !.inTime = @ /\ d <= ConfigureMaxWait,
                                      !.fate[n] = "running"]] :
             r \in ConfigureResponses(req), d \in JobDurations}

\* Create up to its call of ConfigureWithRetry.
PairCreateBegin(n) ==
    /\ inst[n].pc = "idle"
    /\ inst' = [inst EXCEPT ![n] =
                  IF ~Atoi(@.plan.cluster_id).ok
                  THEN [@ EXCEPT !.pc = "done",
                                 !.diag = [summary |-> "Invalid cluster ID",
                                           err |-> Errorf("strconv.Atoi", <<>>)]]
                  ELSE [@ EXCEPT !.pc = "cfg_call", !.timeout = ConfigureMaxWait]]
    /\ UNCHANGED <<slot, remote, soloVars>>

\* One iteration of ConfigureWithRetry's loop in instance n and, when the
\* loop returns, Create up to its return or its call of WaitForJobComplete.
PairConfigureAttempt(n) ==
    /\ inst[n].pc = "cfg_call"
    /\ LET me == inst[n]
           req == [EmptyRequest EXCEPT !.Users = <<[Username |-> me.plan.username]>>]
       IN \E a \in PairConfigureAnswers(n, req) :
             LET dec == ConfigureWithRetryDecide(a.out.err, a.out.resp, me.elapsed, me.timeout)
             IN /\ slot' = a.slot
                /\ remote' = IF a.out.status = 200 THEN RemoteApply(remote, req) ELSE remote
                /\ inst' = [inst EXCEPT ![n] =
                      IF dec.next = "sleep"
                      THEN [me EXCEPT !.pc = "cfg_sleep", !.conflicts = @ + 1]
                      ELSE IF dec.err # NoErr
                      THEN [me EXCEPT !.pc = "done", !.ret = dec.err,
                                      !.diag = [summary |-> "Error creating cluster user",
                                                err |-> dec.err]]
                      ELSE IF dec.resp.JobID > 0
                      THEN [me EXCEPT !.pc = "job_call", !.configResp = dec.resp,
                                      !.timeout = JobTimeout, !.elapsed = 0]
                      ELSE [me EXCEPT !.pc = "done", !.configResp = dec.resp,
                                      !.managed = TRUE,
                                      !.tf = UserCreateState(me.plan, dec.resp)]]
    /\ UNCHANGED soloVars

\* One iteration of WaitForJobComplete's loop in instance n and, when the
\* loop returns, Create up to its return.
PairJobPoll(n) ==
    /\ inst[n].pc = "job_call"
    /\ LET me == inst[n]
           dec == IF ~Before(me.elapsed, me.timeout)
                  THEN [next |-> "return",
                        err |-> Errorf("timeout waiting for cluster jobs to complete", <<>>)]
                  ELSE WaitForJobCompleteDecide(NoErr, ActiveJobs)
       IN inst' = [inst EXCEPT ![n] =
                     IF dec.next = "sleep" THEN [me EXCEPT !.pc = "job_sleep"]
                     ELSE IF dec.err # NoErr
                     THEN [me EXCEPT !.pc = "done", !.ret = dec.err,
                                     !.diag = [summary |-> "Error waiting for user creation",
                                               err |-> dec.err]]
                     ELSE [me EXCEPT !.pc = "done", !.managed = TRUE,
                                     !.tf = UserCreateState(me.plan, me.configResp)]]
    /\ UNCHANGED <<slot, remote, soloVars>>

\* Ten seconds pass once every instance has made the call it was about to
\* make: the sleepers' timers fire, and a job whose time is up completes or
\* fails.
Tick ==
    /\ \A n \in Instances : inst[n].pc \notin {"cfg_call", "job_call"}
    /\ \E n \in Instances : inst[n].pc \in {"cfg_sleep", "job_sleep"}
    /\ inst' = [n \in Instances |->
                  CASE inst[n].pc = "cfg_sleep" ->
                         [inst[n] EXCEPT !.pc = "cfg_call", !.elapsed = @ + RetryInterval]
                    [] inst[n].pc = "job_sleep" ->
                         [inst[n] EXCEPT !.pc = "job_call", !.elapsed = @ + PollInterval]
                    [] OTHER -> inst[n]]
    /\ \E end \in {"completed", "failed"} :
          slot' = IF slot.status # "running" THEN slot
                  ELSE IF slot.left > RetryInterval
                  THEN [slot EXCEPT !.left = @ - RetryInterval]
                  ELSE [slot EXCEPT !.left = 0,
                                    !.status = IF end = "completed" THEN "none" ELSE "failed",
                                    !.fate[slot.owner] = end,
                                    !.inTime = @ /\ end = "completed"]
    /\ UNCHANGED <<remote, soloVars>>

\* ------------------------------------------------------- specification ---
Blank(k) ==
    CASE k = "user" -> BlankUser
      [] k = "database" -> BlankDatabase
      [] k = "extension" -> BlankExtension
      [] k = "grant" -> BlankGrant
      [] k = "firewall" -> BlankFirewall
      [] k = "backup_config" -> BlankBackupConfig
      [] k = "cluster" -> BlankCluster

\* How many '/'-separated parts the kind's composite identifier has.
IdParts(k) == CASE k \in {"user", "database"} -> 2 [] k \in {"extension", "grant"} -> 3
                [] OTHER -> 1

\* No handler is running.
AtRest ==
    /\ verb = ""
    /\ pc = "idle"
    /\ timeout = 0
    /\ elapsed = 0
    /\ attempts = 0
    /\ conflicts = 0
    /\ last = NoAttempt
    /\ cfgReq = EmptyRequest
    /\ ret = NoErr
    /\ configResp = EmptyResponse
    /\ calls = <<>>
    /\ diag = NoDiag
    /\ cancelled = FALSE
    /\ i = 0
    /\ tenant = <<>>
    /\ oldCount = 0
    /\ inst = [n \in Instances |-> IdleInstance(n)]
    /\ slot = NoJob

Init ==
    /\ kind \in Kinds
    /\ managed \in BOOLEAN
    \* a stored identifier that ImportState would not have accepted reaches
    \* Read and Delete only from a state written outside these handlers
    /\ tf \in IF ~managed THEN {Blank(kind)}
              ELSE IF kind = "cluster"
              THEN {[id |-> <<"1">>, node_count |-> n] : n \in 1..MaxNodes}
              ELSE {[Blank(kind) EXCEPT !.id = s] :
                       s \in {t \in IdInputs : Len(SplitN(t, IdParts(kind))) # IdParts(kind)}}
    \* a cluster in the state is there as the remote has it
    /\ remote \in {[InitRemote EXCEPT !.NodeCount = n] :
                     n \in IF kind # "cluster" THEN {1}
                           ELSE IF managed THEN {tf.node_count} ELSE 1..MaxNodes}
    /\ plan = tf
    /\ AtRest

Next ==
    \/ ConfigureAttempt \/ ConfigureSleep \/ JobPoll \/ JobSleep \/ Cancel \/ Return
    \/ UserNext
    \/ DatabaseNext
    \/ ExtensionNext
    \/ GrantNext
    \/ FirewallNext
    \/ BackupConfigNext
    \/ ClusterNext

Spec == Init /\ [][Next]_vars

\* Every remote call returns and every timer fires: a loop that can take
\* its next step takes it.
LiveSpec ==
    /\ Spec
    /\ WF_vars(ConfigureAttempt) /\ WF_vars(ConfigureSleep)
    /\ WF_vars(JobPoll) /\ WF_vars(JobSleep)
    /\ WF_vars(ClusterActivePoll) /\ WF_vars(ClusterActiveSleep)
    /\ WF_vars(ClusterDeletedPoll) /\ WF_vars(ClusterDeletedSleep)

\* The composite identifier alone: Create builds it from the plan's
\* attributes, and Read, Update and Delete parse it back.  User and database
\* names pass pgIdentifierRegex; the keys of extensions and grants are any
\* strings.
ValidIdentifiers ==
    {s \in StringsUpTo(MaxIdLen) :
        Len(s) >= 1 /\ s[1] = "x" /\ \A n \in 1..Len(s) : s[n] \in {"x", "1"}}

IdPlans(k) ==
    LET ids == {s \in StringsUpTo(MaxIdLen) : Atoi(s).ok}
    IN CASE k = "user" ->
              {[BlankUser EXCEPT !.cluster_id = c, !.username = u] :
                  c \in ids, u \in ValidIdentifiers}
         [] k = "database" ->
              {[BlankDatabase EXCEPT !.cluster_id = c, !.name = u] :
                  c \in ids, u \in ValidIdentifiers}
         [] k = "extension" ->
              {[BlankExtension EXCEPT !.cluster_id = c, !.extension = u, !.database = d] :
                  c \in ids, u \in StringsUpTo(MaxIdLen), d \in StringsUpTo(MaxIdLen)}
         [] k = "grant" ->
              {[BlankGrant EXCEPT !.cluster_id = c, !.username = u, !.database = d] :
                  c \in ids, u \in StringsUpTo(MaxIdLen), d \in StringsUpTo(MaxIdLen)}

IdInit ==
    /\ kind \in {"user", "database", "extension", "grant"}
    /\ managed = FALSE
    /\ tf = Blank(kind)
    /\ remote = InitRemote
    /\ plan \in IdPlans(kind)
    /\ AtRest

\* Create's "plan.ID = ..." and State.Set.
IdBuild ==
    /\ pc = "idle"
    /\ pc' = "built"
    /\ managed' = TRUE
    /\ tf' = CASE kind = "user" -> UserCreateState(plan, EmptyResponse)
               [] kind = "database" -> DatabaseCreateState(plan, plan.owner)
               [] kind = "extension" -> ExtensionCreateState(plan, plan.database)
               [] kind = "grant" -> GrantCreateState(plan)
    /\ UNCHANGED <<pairVars, kind, remote, verb, plan, loopVars, calls, diag, cancelled,
                   i, tenant, oldCount>>

\* The parse of state.ID that Read, Update and Delete start with; plan
\* takes what the parser returned.
IdParse ==
    /\ pc = "built"
    /\ pc' = "parsed"
    /\ plan' = CASE kind = "user" -> parseUserID(tf.id)
                 [] kind = "database" -> parseDatabaseID(tf.id)
                 [] kind = "extension" -> parseExtensionID(tf.id)
                 [] kind = "grant" -> parseGrantID(tf.id)
    /\ UNCHANGED <<pairVars, kind, managed, tf, remote, verb, loopVars, calls, diag, cancelled,
                   i, tenant, oldCount>>

IdNext == IdBuild \/ IdParse

IdSpec == IdInit /\ [][IdNext]_vars

\* Two user resources of one cluster, created concurrently.
PairInit == Init /\ kind = "user" /\ ~managed

PairNext ==
    \E n \in Instances : PairCreateBegin(n) \/ PairConfigureAttempt(n) \/ PairJobPoll(n) \/ Tick

PairSpec == PairInit /\ [][PairNext]_vars

\* Every call is made and every timer fires.
PairLiveSpec ==
    /\ PairSpec
    /\ WF_vars(Tick)
    /\ \A n \in Instances :
          WF_vars(PairCreateBegin(n)) /\ WF_vars(PairConfigureAttempt(n)) /\ WF_vars(PairJobPoll(n))

\* -------------------------------------------------------------- claims ---
ConfigureKinds == {"user", "database", "extension", "grant"}

HasFailed(jobs) == \E n \in 1..Len(jobs) : jobs[n].Status = "failed"

\* C1: conflict absorption.  Whenever ConfigureWithRetry returns after an
\* attempt that succeeded, every earlier attempt answered conflict, it made
\* exactly one call more than it saw conflicts, it returns no error, and the
\* response it returns is the response of that last attempt.
C1_ConflictAbsorption ==
    (pc = "cfg_ret" /\ last.err = NoErr) =>
        /\ ret = NoErr
        /\ configResp = last.resp
        /\ attempts = conflicts + 1

\* Twelve conflicts, ten seconds apart, then a success that starts a job.
C1_Witness ==
    /\ pc = "cfg_ret" /\ last.err = NoErr /\ ret = NoErr
    /\ conflicts = 12 /\ attempts = 13
    /\ configResp.JobID > 0

\* C2: conflict at the deadline.  When ConfigureWithRetry returns after a
\* conflict answered past the deadline, every attempt answered conflict, and
\* what it returns is the timeout error wrapping that conflict, which none of
\* IsConflict, IsNotFound and IsGone accepts; and while a handler holds that
\* timeout error the retry loop is not running.
C2_ConflictAtDeadline ==
    /\ (pc = "cfg_ret" /\ last.err = APIError(StatusConflict) /\ elapsed >= timeout) =>
          /\ attempts = conflicts
          /\ ret.type = "wrapError"
          /\ ret.msg = "timeout waiting for cluster to be available for configuration"
          /\ ret.wraps = StatusConflict
          /\ ~IsConflict(ret) /\ ~IsNotFound(ret) /\ ~IsGone(ret)
    /\ (ret.msg = "timeout waiting for cluster to be available for configuration") =>
          pc \in {"cfg_ret", "done"}

\* Thirteen conflicts: the last one is answered when the two minutes are over.
C2_Witness ==
    /\ pc = "cfg_ret" /\ last.err = APIError(StatusConflict)
    /\ elapsed = ConfigureMaxWait /\ conflicts = 13
    /\ ret.wraps = StatusConflict

\* C3: job-failure propagation.  In user, database, extension and grant
\* handlers, when a poll that follows a successful configure call with a job
\* id lists a failed job, WaitForJobComplete returns an error carrying the
\* first failed job's message, the handler ends with that error as its
\* diagnostic, and the managed state is as it was before the handler: absent
\* after Create, not the planned one after Update, still present after Delete.
C3_JobFailurePropagates ==
    /\ (pc = "job_ret" /\ kind \in ConfigureKinds /\ last.err = NoErr /\ HasFailed(last.jobs)) =>
          /\ configResp.JobID > 0
          /\ ret.msg = "cluster job failed"
          /\ ret.detail = FirstFailed(last.jobs).ErrorMessage
    /\ (pc = "done" /\ kind \in ConfigureKinds /\ last.err = NoErr /\ HasFailed(last.jobs)) =>
          /\ diag.err.msg = "cluster job failed"
          /\ diag.err.detail = FirstFailed(last.jobs).ErrorMessage
          /\ verb = "Create" => ~managed
          /\ verb = "Update" => managed /\ tf # plan
          /\ verb = "Delete" => managed

\* A grant Update whose job list shows a running job, then a failed one.
C3_Witness ==
    /\ pc = "done" /\ kind = "grant" /\ verb = "Update"
    /\ Len(last.jobs) = 2 /\ last.jobs[1].Status = "running" /\ last.jobs[2].Status = "failed"
    /\ diag.err.detail = ErrorMessageOf(2)
    /\ tf.access # plan.access

AddWait == <<Call("AddNode"), Call("WaitForJobComplete")>>

RECURSIVE AddWaitPairs(_)
AddWaitPairs(k) == IF k <= 0 THEN <<>> ELSE AddWait \o AddWaitPairs(k - 1)

\* C4: scale-out sequencing.  In a Cluster Update from m to n > m nodes
\* that has met no failure, the calls made so far are AddNode and
\* WaitForJobComplete in alternation, one pair per node added and none for
\* RemoveNode; the loop is back at its head only after the wait of the
\* previous AddNode returned success with no node job outstanding; and the
\* Update ends after exactly n - m pairs and the refresh.
C4_ScaleOutSequencing ==
    (kind = "cluster" /\ verb = "Update" /\ plan.node_count > oldCount /\ diag = NoDiag) =>
        /\ pc = "scale_out" =>
              /\ calls = AddWaitPairs(i - oldCount)
              /\ i <= plan.node_count
              /\ i > oldCount => ret = NoErr /\ remote.pending = "none"
        /\ pc \in {"job_call", "job_sleep", "job_ret"} =>
              calls = AddWaitPairs(i - oldCount + 1)
        /\ pc = "done" =>
              calls = AddWaitPairs(plan.node_count - oldCount) \o <<Call("GetCluster")>>

\* 1 -> 3: two AddNode calls, each waited for, then the refresh.
C4_Witness ==
    /\ pc = "done" /\ kind = "cluster" /\ verb = "Update" /\ diag = NoDiag
    /\ oldCount = 1 /\ plan.node_count = 3
    /\ Len(calls) = 5
    /\ tf.node_count = 3

\* The node name the claim gives for node k of the cluster read.
ExpectedNodeName(k) == remote.TenantID \o <<"-", "d", "b", "-", DigitChar(k)>>

\* RemoveNode and its wait for nodes m, m-1, ..., n+1.
RECURSIVE RemoveWaitPairs(_, _)
RemoveWaitPairs(m, n) ==
    IF m <= n THEN <<>>
    ELSE <<[Call("RemoveNode") EXCEPT !.name = ExpectedNodeName(m)],
           Call("WaitForJobComplete")>> \o RemoveWaitPairs(m - 1, n)

\* C5: scale-in sequencing.  In a Cluster Update from m to n < m nodes that
\* has met no failure, the first call is GetCluster, and the calls after it
\* are RemoveNode and WaitForJobComplete in alternation, for the names
\* <tenant>-db-m, <tenant>-db-(m-1), ... in descending order and none for
\* AddNode; the loop is back at its head only after the previous wait returned
\* success; and the Update ends after exactly m - n pairs and the refresh.
C5_ScaleInSequencing ==
    (kind = "cluster" /\ verb = "Update" /\ plan.node_count < oldCount /\ diag = NoDiag
        /\ pc # "idle") =>
        /\ pc = "scale_in" =>
              /\ calls = <<Call("GetCluster")>> \o RemoveWaitPairs(oldCount, i)
              /\ i >= plan.node_count
              /\ i < oldCount => ret = NoErr /\ remote.pending = "none"
        /\ pc \in {"job_call", "job_sleep", "job_ret"} =>
              calls = <<Call("GetCluster")>> \o RemoveWaitPairs(oldCount, i - 1)
        /\ pc = "done" =>
              calls = <<Call("GetCluster")>> \o RemoveWaitPairs(oldCount, plan.node_count)
                         \o <<Call("GetCluster")>>

\* 3 -> 1: <tenant>-db-3, then <tenant>-db-2.
C5_Witness ==
    /\ pc = "done" /\ kind = "cluster" /\ verb = "Update" /\ diag = NoDiag
    /\ oldCount = 3 /\ plan.node_count = 1
    /\ Len(calls) = 6
    /\ calls[2].name = <<"t", "-", "d", "b", "-", "3">>
    /\ calls[4].name = <<"t", "-", "d", "b", "-", "2">>
    /\ tf.node_count = 1

\* One iteration of a scaling loop: the node call and the start of its wait,
\* or the node call failing and the Update ending there.
C6_NodeCallStep ==
    (kind = "cluster" /\ verb = "Update" /\ pc \in {"scale_out", "scale_in"}
        /\ i # plan.node_count) =>
        /\ Len(calls') > Len(calls)
        /\ SubSeq(calls', 1, Len(calls)) = calls
        /\ calls'[Len(calls) + 1].fn = IF pc = "scale_out" THEN "AddNode" ELSE "RemoveNode"
        /\ \/ /\ pc' = "job_call"
              /\ Len(calls') = Len(calls) + 2
              /\ calls'[Len(calls) + 2].fn = "WaitForJobComplete"
              /\ diag' = NoDiag
           \/ /\ pc' = "done"
              /\ Len(calls') = Len(calls) + 1
              /\ diag'.err # NoErr
              /\ managed' /\ tf' = tf /\ tf'.node_count = oldCount
              /\ remote' = remote

\* A wait that returned an error ends the Update there.
C6_WaitFailureStep ==
    (kind = "cluster" /\ verb = "Update" /\ pc = "job_ret" /\ ret # NoErr) =>
        /\ pc' = "done"
        /\ diag'.err = ret
        /\ calls' = calls
        /\ managed' /\ tf' = tf /\ tf'.node_count = oldCount
        /\ remote' = remote

\* An Update that ended in an error goes back to the host and does no more.
C6_AfterFailureStep ==
    (kind = "cluster" /\ verb = "Update" /\ pc = "done" /\ diag.err # NoErr) =>
        /\ pc' = "idle"
        /\ managed' = managed /\ tf' = tf
        /\ remote' = remote

\* C6: scaling aborts on the first failure without rollback.  In a Cluster
\* Update, the step in which AddNode or RemoveNode fails, and the step after
\* a job wait that failed, end the Update with an error diagnostic, with no
\* call after the failed one, with the managed state (and its node count) as
\* before the Update and the remote cluster as the successful steps left it;
\* and the Update makes no call after that.
C6_AbortWithoutRollback ==
    [][C6_NodeCallStep /\ C6_WaitFailureStep /\ C6_AfterFailureStep]_vars

\* 1 -> 3 where the second node's job fails: the state says 1, the remote 2.
C6_Witness ==
    /\ pc = "done" /\ kind = "cluster" /\ verb = "Update"
    /\ diag.summary = "Error waiting for add-node job" /\ diag.err.msg = "cluster job failed"
    /\ oldCount = 1 /\ plan.node_count = 3 /\ i = 2
    /\ tf.node_count = 1 /\ remote.NodeCount = 2
    /\ Len(calls) = 4

DeletingKinds == {"user", "database", "firewall", "backup_config", "cluster"}

\* C8: absence is success for Delete.  When the deletion or reset call of a
\* user, database, firewall, backup config or cluster Delete answered 404 or
\* 410, the Delete ends without a diagnostic, that call is the only call it
\* made (no job wait, no deletion poll), and the entity is out of the state.
C8_DeleteAbsentSucceeds ==
    (pc = "done" /\ verb = "Delete" /\ kind \in DeletingKinds
        /\ ret.type = "APIError" /\ ret.status \in {StatusNotFound, StatusGone}) =>
        /\ diag = NoDiag
        /\ ~managed
        /\ Len(calls) = 1
        /\ calls[1].fn \in {"ConfigureWithRetry", "UpdateBackupConfig", "DeleteCluster"}

\* A cluster Delete answered 410.
C8_Witness ==
    /\ pc = "done" /\ verb = "Delete" /\ kind = "cluster"
    /\ ret = APIError(StatusGone)
    /\ ~managed /\ diag = NoDiag
    /\ calls = <<Call("DeleteCluster")>>

\* C9: non-revocable entities.  A Delete of an extension or of a grant is
\* one step that makes no remote call, ends without a diagnostic, takes the
\* entity out of the state and leaves the remote cluster as it was.
C9_NonRevocableDelete ==
    [][(pc = "idle" /\ kind \in {"extension", "grant"} /\ verb' = "Delete") =>
          /\ pc' = "done"
          /\ calls' = <<>>
          /\ diag' = NoDiag
          /\ ~managed'
          /\ remote' = remote]_vars

\* A grant deleted from the state while the remote still has it.
C9_Witness ==
    /\ pc = "done" /\ kind = "grant" /\ verb = "Delete"
    /\ ~managed /\ diag = NoDiag /\ calls = <<>>
    /\ remote.Grants # <<>>

\* An identifier with the kind's number of parts and an integer first part.
WellFormedID(k, id) ==
    /\ Len(SplitN(id, IdParts(k))) = IdParts(k)
    /\ Atoi(SplitN(id, IdParts(k))[1]).ok

\* C10: malformed composite identifier.  For user, database, extension and
\* grant, ImportState, Read and Delete given an identifier with too few
\* parts or a first part that is no integer end in an error diagnostic
\* without a remote call, and ImportState seeds no state from it.
C10_MalformedIDRejected ==
    (pc = "done" /\ kind \in ConfigureKinds /\ verb \in {"ImportState", "Read", "Delete"}
        /\ ~WellFormedID(kind, plan.id)) =>
        /\ diag.err # NoErr
        /\ calls = <<>>
        /\ verb = "ImportState" => ~managed

\* C11: idempotent convergence of node count.  A Cluster Update whose
\* desired count equals the stored count (as it does when the Update before
\* it scaled to that count and stored the refreshed cluster) is one step that
\* makes a single GetCluster call and no AddNode or RemoveNode, and leaves
\* the remote cluster as it was.
C11_NoOpUpdate ==
    [][(pc = "idle" /\ kind = "cluster" /\ verb' = "Update" /\ Atoi(tf.id).ok
          /\ plan'.node_count = tf.node_count) =>
          /\ pc' = "done"
          /\ calls' = <<Call("GetCluster")>>
          /\ remote' = remote]_vars

\* The stored count 3 was written by an Update that scaled to 3; the Update
\* here asks for 3 again.
C11_Witness ==
    /\ pc = "done" /\ kind = "cluster" /\ verb = "Update" /\ diag = NoDiag
    /\ oldCount = 3 /\ plan.node_count = 3 /\ tf.node_count = 3
    /\ calls = <<Call("GetCluster")>>

\* C12: non-conflict errors of ConfigureWithRetry.  An attempt that fails
\* with an error other than a 409 (not found, gone, another status, a
\* transport error) makes ConfigureWithRetry return that same error and no
\* response in the same iteration, with no sleep since the attempt began, so
\* IsNotFound and IsGone say of the returned error what they say of the raw
\* one; and once ConfigureWithRetry has returned, no attempt or sleep follows.
C12_NonConflictPropagates ==
    [][/\ (pc = "cfg_call" /\ attempts' = attempts + 1
             /\ last'.err # NoErr /\ last'.err # APIError(StatusConflict)) =>
             /\ pc' = "cfg_ret"
             /\ ret' = last'.err
             /\ configResp' = EmptyResponse
             /\ attempts' = conflicts' + 1
             /\ elapsed' - elapsed \in Latencies
             /\ IsNotFound(ret') = (last'.err = APIError(StatusNotFound))
             /\ IsGone(ret') = (last'.err = APIError(StatusGone))
       /\ pc = "cfg_ret" => pc' \notin {"cfg_call", "cfg_sleep"}]_vars

\* Two conflicts absorbed, then a 404 handed to the caller as it came.
C12_Witness ==
    /\ pc = "cfg_ret" /\ last.err = APIError(StatusNotFound)
    /\ ret = APIError(StatusNotFound) /\ IsNotFound(ret)
    /\ conflicts = 2 /\ attempts = 3

\* The password the create response carries for the planned user, or the
\* planned (unknown) value when it carries none.
CapturedPassword(p, resp) ==
    LET hits == {n \in 1..Len(resp.Users) : resp.Users[n].Username = p.username}
    IN IF hits = {} THEN p.password
       ELSE resp.Users[CHOOSE n \in hits : \A m \in hits : n <= m].Password

\* C13: the user password is create-time-only.  The password a successful
\* Create stores is the one its configure response carried; no step that
\* leaves the user in the state changes the stored password; and a Read that
\* finds the user stores the state it was given, whatever password the
\* cluster's user record carries.
C13_PasswordCreateTimeOnly ==
    [][/\ (kind = "user" /\ verb' = "Create" /\ pc' = "done" /\ diag' = NoDiag) =>
             /\ managed'
             /\ tf'.password = CapturedPassword(plan', configResp')
       /\ (kind = "user" /\ managed /\ managed') => tf'.password = tf.password
       /\ (kind = "user" /\ pc = "idle" /\ verb' = "Read" /\ managed') => tf' = tf]_vars

\* A Read that found the created user, whose record carries another password
\* than the one Create captured.
C13_Witness ==
    /\ pc = "done" /\ kind = "user" /\ verb = "Read" /\ managed /\ diag = NoDiag
    /\ tf.password = "pw-a"
    /\ \E n \in 1..Len(remote.Users) :
          /\ remote.Users[n].Username = tf.username
          /\ remote.Users[n].Password = RecordPassword

\* The classifiers that accept an error.
Classes(err) ==
    {c \in {"not_found", "conflict", "gone"} :
        \/ c = "not_found" /\ IsNotFound(err)
        \/ c = "conflict" /\ IsConflict(err)
        \/ c = "gone" /\ IsGone(err)}

\* C14: error classification by HTTP status.  A response with a status of
\* 400 or above makes doRequest return an API error carrying that status;
\* on the error of a response IsNotFound holds exactly for 404, IsConflict
\* exactly for 409 and IsGone exactly for 410, so at most one of them holds;
\* and an error that is no API error (a transport failure, a wrapped error,
\* a cancellation) is accepted by none.
C14_ClassificationByStatus ==
    /\ last.status >= 400 => last.err = APIError(last.status)
    /\ last.status >= 0 =>
          Classes(last.err) =
              CASE last.status = 404 -> {"not_found"}
                [] last.status = 409 -> {"conflict"}
                [] last.status = 410 -> {"gone"}
                [] OTHER -> {}
    /\ \A e \in {last.err, ret, diag.err} :
          /\ Cardinality(Classes(e)) <= 1
          /\ e.type # "APIError" => Classes(e) = {}

\* A 410 answer: gone, and not taken for not-found.
C14_Witness ==
    /\ last.status = 410 /\ last.err = APIError(StatusGone)
    /\ IsGone(last.err) /\ ~IsNotFound(last.err) /\ ~IsConflict(last.err)
    /\ ret = last.err

CeilDiv(a, b) == (a + b - 1) \div b

\* The sleep interval of the loop that is running or has just returned.
LoopInterval ==
    CASE pc \in {"cfg_call", "cfg_sleep", "cfg_ret"} -> RetryInterval
      [] pc \in {"job_call", "job_sleep", "job_ret"} -> PollInterval
      [] pc \in {"act_call", "act_sleep", "act_ret"} -> ActivePollInterval
      [] pc \in {"del_call", "del_sleep", "del_ret"} -> DeletePollInterval

InLoop ==
    pc \in {"cfg_call", "cfg_sleep", "job_call", "job_sleep",
            "act_call", "act_sleep", "del_call", "del_sleep"}

LoopReturned == pc \in {"cfg_ret", "job_ret", "act_ret", "del_ret"}

\* The loop returned although its last remote answer was neither terminal
\* nor did the cancellation fire: the deadline ended it.
EndedByDeadline ==
    /\ LoopReturned /\ ret # CtxErr
    /\ CASE pc = "cfg_ret" -> last.err = APIError(StatusConflict)
         [] pc = "job_ret" -> last = NoAttempt
         [] pc = "act_ret" -> last.status = 200 /\ last.cluster = "provisioning"
         [] pc = "del_ret" -> last.status = 200 /\ last.cluster # "deleted"

TimeoutMessage ==
    CASE pc = "cfg_ret" -> "timeout waiting for cluster to be available for configuration"
      [] pc = "job_ret" -> "timeout waiting for cluster jobs to complete"
      [] pc = "act_ret" -> "timeout waiting for cluster to become active"
      [] pc = "del_ret" -> "timeout waiting for cluster to be deleted"

\* C15: bounded waiting.  With every remote call returning and every sleep
\* advancing the clock by the interval, each of ConfigureWithRetry,
\* WaitForJobComplete, WaitForClusterActive and WaitForClusterDeleted makes
\* at most ceil(timeout / interval) + 1 remote calls and returns whatever the
\* remote answers; and it returns its timeout error exactly when the deadline
\* ended it, an error that is no API error and carries none of the messages
\* of a remote-reported failure.
C15_BoundedWaiting ==
    /\ [](InLoop \/ LoopReturned => attempts <= CeilDiv(timeout, LoopInterval) + 1)
    /\ [](LoopReturned =>
            /\ EndedByDeadline <=> ret.msg = TimeoutMessage
            /\ EndedByDeadline =>
                  /\ elapsed >= timeout
                  /\ ret.type \in {"errorString", "wrapError"}
                  /\ ~IsNotFound(ret) /\ ~IsConflict(ret) /\ ~IsGone(ret))
    /\ (InLoop ~> ~InLoop)

\* A cluster that stays in provisioning: 100 polls in 25 minutes, then the
\* timeout error.
C15_Witness ==
    /\ pc = "act_ret" /\ attempts = CeilDiv(ActiveTimeout, ActivePollInterval)
    /\ elapsed = ActiveTimeout
    /\ ret = Errorf("timeout waiting for cluster to become active", <<>>)

\* A poll of WaitForClusterActive that fetched a status other than active
\* and provisioning ends the poller with an error.
C16_ActiveStep ==
    (pc = "act_call" /\ attempts' = attempts + 1 /\ last'.status = 200
        /\ last'.cluster \notin {"active", "provisioning"}) =>
        pc' = "act_ret" /\ ret' # NoErr

\* A poll of WaitForClusterDeleted that fetched a status other than deleted
\* and deleting ends the poller with an error.
C16_DeletedStep ==
    (pc = "del_call" /\ attempts' = attempts + 1 /\ last'.status = 200
        /\ last'.cluster \notin {"deleted", "deleting"}) =>
        pc' = "del_ret" /\ ret' # NoErr

\* C16: an unknown status is a hard failure in both cluster-lifecycle
\* pollers.  In WaitForClusterActive and in WaitForClusterDeleted, a poll
\* that fetched a cluster status which is neither the poller's success
\* status nor a still-pending one makes the poller return an error at that
\* poll; it does not sleep and fetch again.
C16_UnknownStatusIsFailure == [][C16_ActiveStep /\ C16_DeletedStep]_vars

\* The half of C16 that is about WaitForClusterActive.
C16_ActiveHalf == [][C16_ActiveStep]_vars

\* The return position of the loop whose sleep pc is.
ReturnOf(p) ==
    CASE p = "cfg_sleep" -> "cfg_ret" [] p = "job_sleep" -> "job_ret"
      [] p = "act_sleep" -> "act_ret" [] p = "del_sleep" -> "del_ret"

\* C17: cancellation.  In ConfigureWithRetry, WaitForJobComplete,
\* WaitForClusterActive and WaitForClusterDeleted, a sleep between attempts
\* that finds the context cancelled (before it began or while it lasted)
\* returns the context's error from the loop at once: no time of the
\* interval passes, no further request is made by the loop, and the handler
\* that receives the error ends without another remote call.
C17_Cancellation ==
    [][/\ (pc \in {"cfg_sleep", "job_sleep", "act_sleep", "del_sleep"} /\ cancelled) =>
             /\ pc' = ReturnOf(pc)
             /\ ret' = CtxErr
             /\ elapsed' = elapsed /\ attempts' = attempts /\ calls' = calls
       /\ (pc \in {"cfg_ret", "job_ret", "act_ret", "del_ret"} /\ ret = CtxErr) =>
             /\ pc' = "done"
             /\ diag'.err = CtxErr
             /\ attempts' = 0 /\ calls' = calls]_vars

\* ConfigureWithRetry left at its third sleep, 20 s into the two minutes.
C17_Witness ==
    /\ pc = "cfg_ret" /\ ret = CtxErr /\ cancelled
    /\ conflicts = 3 /\ attempts = 3 /\ elapsed = 2 * RetryInterval

\* The error message of the first job of the list, in list order, whose
\* status is failed.
FirstFailedMessage(jobs) ==
    LET failed == {n \in 1..Len(jobs) : jobs[n].Status = "failed"}
    IN jobs[CHOOSE n \in failed : \A m \in failed : n <= m].ErrorMessage

\* C18: job poller outcomes.  When WaitForJobComplete returns at a poll,
\* every earlier poll listed jobs none of which had failed, and it returns
\* nil for an empty list, the job-failure error with the first failed job's
\* message for a list holding a failed job, and the wrapped fetch error for
\* a failed fetch; it returns its timeout error only with the deadline
\* passed and every poll made answered by such a pending list; and once it
\* has returned it polls no more.
C18_JobPollerOutcomes ==
    [][/\ (pc' = "job_ret" /\ last'.status >= 0) =>
             /\ attempts' = conflicts' + 1
             /\ last'.err # NoErr =>
                   ret' = WrapErrorf("polling job status", last'.err)
             /\ (last'.err = NoErr /\ last'.jobs = <<>>) => ret' = NoErr
             /\ (last'.err = NoErr /\ HasFailed(last'.jobs)) =>
                   ret' = Errorf("cluster job failed", FirstFailedMessage(last'.jobs))
             /\ (last'.err = NoErr /\ last'.jobs # <<>>) => HasFailed(last'.jobs)
       /\ (pc' = "job_ret"
             /\ ret' = Errorf("timeout waiting for cluster jobs to complete", <<>>)) =>
             /\ last' = NoAttempt
             /\ attempts' = conflicts'
             /\ elapsed' >= timeout'
       /\ pc = "job_ret" => pc' \notin {"job_call", "job_sleep"}]_vars

\* Two polls list a running job, the third lists a running and a failed one.
C18_Witness ==
    /\ pc = "job_ret" /\ attempts = 3 /\ conflicts = 2
    /\ Len(last.jobs) = 2 /\ last.jobs[1].Status = "running" /\ last.jobs[2].Status = "failed"
    /\ ret = Errorf("cluster job failed", ErrorMessageOf(2))

Waited == \E n \in 1..Len(calls) : calls[n].fn = "WaitForJobComplete"

\* Create and Update of these kinds wait for the job exactly when the
\* configure response carries a job id, and persist only after that wait
\* returned nil.
WaitsForItsJob(kinds) ==
    (kind \in kinds /\ verb \in {"Create", "Update"}) =>
        /\ (pc = "done" /\ calls # <<>>) => (Waited <=> configResp.JobID > 0)
        /\ (pc = "done" /\ calls # <<>> /\ diag = NoDiag /\ configResp.JobID > 0) =>
              Waited /\ ret = NoErr
        /\ (pc \notin {"idle", "done"} /\ verb = "Create") => ~managed
        /\ (pc \notin {"idle", "done"} /\ verb = "Update") => tf # plan

\* C19: Create and Update complete only after their job.  For user,
\* database, extension, grant and firewall, Create and Update call
\* WaitForJobComplete if and only if the configure response carries a job
\* id above zero, and they persist state only after that wait returned
\* success.
C19_CompletesAfterJob ==
    WaitsForItsJob({"user", "database", "extension", "grant", "firewall"})

\* C19 for the four kinds other than firewall.
C19_ConfigureKinds == WaitsForItsJob(ConfigureKinds)

\* The remote calls of the model that read only.
ReadingCalls == {"GetCluster", "GetBackupConfig", "WaitForJobComplete"}

\* Create, Update and Delete of these kinds mutate only through
\* ConfigureWithRetry, and never report a raw 409 to the operator.
AbsorbsConflicts(kinds) ==
    (kind \in kinds /\ verb \in {"Create", "Update", "Delete"}) =>
        /\ \A n \in 1..Len(calls) :
              calls[n].fn \notin ReadingCalls => calls[n].fn = "ConfigureWithRetry"
        /\ pc = "done" => ~IsConflict(diag.err)

\* C20: every reconciler mutation absorbs conflicts.  For user, database,
\* extension, grant, firewall and backup config, the mutating call of
\* Create, Update and Delete is made through ConfigureWithRetry, so a 409
\* answer is retried within the two minutes and is never what the handler
\* reports.
C20_MutationsAbsorbConflicts ==
    AbsorbsConflicts({"user", "database", "extension", "grant", "firewall", "backup_config"})

\* C20 for the kinds mutated through the configure envelope.
C20_ConfigureEnvelope ==
    AbsorbsConflicts({"user", "database", "extension", "grant", "firewall"})

\* C21: two instances that run configure-based Creates on one cluster, in
\* any interleaving, against a remote that runs one configuration job at a
\* time and answers conflict meanwhile: neither reports a raw conflict error;
\* and when every job completes within the retry deadline, an instance that
\* has returned had its mutation accepted and reports success; and both
\* instances do return.
PairDone == \A n \in Instances : inst[n].pc = "done"

Accepted(n) == \E m \in 1..Len(remote.Users) : remote.Users[m].Username = PairUsername(n)

Succeeded(n) ==
    /\ inst[n].pc = "done"
    /\ inst[n].diag = NoDiag
    /\ inst[n].managed
    /\ inst[n].tf.id = <<"1", Slash>> \o PairUsername(n)

C26_JobWaitIsolation ==
    [][\A n \in Instances :
          (inst[n].pc = "job_call" /\ inst'[n].pc = "done" /\ slot.fate[n] = "completed")
              => inst'[n].diag = NoDiag]_vars

\* C22: a Cluster Update that starts while the remote node count c lies
\* strictly between the stored count m and the desired count n (an earlier
\* Update failed partway and no Read refreshed the state) sets its loop up
\* for exactly |n - c| add/remove calls, one per iteration.
Distance(a, b) == IF a >= b THEN a - b ELSE b - a

StrictlyBetween(c, a, b) == (a < c /\ c < b) \/ (b < c /\ c < a)

C22_RetryDelta ==
    [][(/\ pc = "idle" /\ kind = "cluster" /\ verb' = "Update"
        /\ pc' \in {"scale_out", "scale_in"}
        /\ tf.node_count \in 1..MaxNodes
        /\ StrictlyBetween(remote.NodeCount, tf.node_count, plan'.node_count))
          => Distance(plan'.node_count, i') = Distance(plan'.node_count, remote.NodeCount)]_vars

\* C23: after a successful Create of a user, a database or an extension the
\* remotely resolved field in state (password, owner, database) is never
\* unknown, whatever the configure response held; it is the response's value
\* when the response carries the entity.
CreatedOK(k) == pc = "done" /\ kind = k /\ verb = "Create" /\ diag = NoDiag /\ managed

C23_CreateResolvesFields ==
    /\ CreatedOK("user") =>
          /\ tf.password # Unknown
          /\ configResp.Users # <<>> => tf.password = configResp.Users[1].Password
    /\ CreatedOK("database") =>
          /\ tf.owner # Unknown
          /\ configResp.Databases # <<>> => tf.owner = configResp.Databases[1].Owner
    /\ CreatedOK("extension") =>
          /\ tf.database \notin {UnknownStr, NullStr}
          /\ (configResp.Extensions # <<>> /\ configResp.Extensions[1].Database # <<>>)
                => tf.database = configResp.Extensions[1].Database

\* C24: Read of a user, database, extension or grant, once it has asked for
\* the cluster: on a not-found or gone answer, and on a cluster that holds no
\* entry with the entity's key, the entity leaves the state without error;
\* on a cluster that holds one the entity stays, its mutable field (owner,
\* access) set to the remote value and all else as it was; on any other
\* error Read reports it and leaves the state as it was.
KeyParts == Tail(SplitN(tf.id, IdParts(kind)))

Matches ==
    CASE kind = "user" -> {n \in 1..Len(remote.Users) : remote.Users[n].Username = KeyParts[1]}
      [] kind = "database" ->
            {n \in 1..Len(remote.Databases) : remote.Databases[n].DBName = KeyParts[1]}
      [] kind = "extension" ->
            {n \in 1..Len(remote.Extensions) :
                /\ remote.Extensions[n].Extension = KeyParts[1]
                /\ remote.Extensions[n].Database = KeyParts[2]}
      [] kind = "grant" ->
            {n \in 1..Len(remote.Grants) :
                /\ remote.Grants[n].Username = KeyParts[1]
                /\ remote.Grants[n].Database = KeyParts[2]}

Refreshed ==
    LET n == CHOOSE m \in Matches : \A l \in Matches : m <= l
    IN CASE kind = "database" -> [tf EXCEPT !.owner = remote.Databases[n].Owner]
         [] kind = "grant" -> [tf EXCEPT !.access = remote.Grants[n].Access]
         [] OTHER -> tf

C24_ReadReconciliation ==
    [][(/\ pc = "idle" /\ kind \in ConfigureKinds /\ verb' = "Read"
        /\ calls' = <<Call("GetCluster")>>)
          => CASE ret' \in {APIError(StatusNotFound), APIError(StatusGone)} ->
                    diag' = NoDiag /\ ~managed'
               [] ret' = NoErr /\ Matches = {} -> diag' = NoDiag /\ ~managed'
               [] ret' = NoErr /\ Matches # {} ->
                    diag' = NoDiag /\ managed' /\ tf' = Refreshed
               [] OTHER ->
                    /\ diag' = [summary |-> "Error reading cluster", err |-> ret']
                    /\ managed' = managed /\ tf' = tf]_vars

\* A Read that found the database and took an owner the state did not have;
\* the handler's input (plan) is the state it started from.
C24_Witness ==
    /\ pc = "done" /\ kind = "database" /\ verb = "Read" /\ calls = <<Call("GetCluster")>>
    /\ ret = NoErr /\ managed
    /\ tf.owner = DefaultOwner /\ plan.owner # tf.owner

\* C25 as claimed: Cluster Delete reports success only after DeleteCluster
\* was accepted and a later fetch showed the cluster deleted or answered
\* not-found/gone; after an accepted DeleteCluster whose wait ended otherwise
\* (deadline, other fetch error) it reports an error and the cluster stays in
\* managed state.
ClusterDeleteDone == pc = "done" /\ kind = "cluster" /\ verb = "Delete"

DeleteAccepted == calls = <<Call("DeleteCluster"), Call("WaitForClusterDeleted")>>

FetchShowedGone ==
    \/ last.status = 200 /\ last.cluster = "deleted"
    \/ last.status \in {StatusNotFound, StatusGone}

DeleteFailureKeepsState ==
    ClusterDeleteDone =>
        /\ (DeleteAccepted /\ ~FetchShowedGone) => diag # NoDiag
        /\ diag # NoDiag => managed /\ tf = plan
        /\ diag = NoDiag => ~managed

C25_DeleteOrdering ==
    /\ (ClusterDeleteDone /\ diag = NoDiag) => DeleteAccepted /\ FetchShowedGone
    /\ DeleteFailureKeepsState

\* C25 as the code has it: Delete also reports success, with no fetch, when
\* DeleteCluster itself answers not-found or gone.
C25_DeleteOrderingOrAbsent ==
    /\ (ClusterDeleteDone /\ diag = NoDiag) =>
          \/ DeleteAccepted /\ FetchShowedGone
          \/ /\ calls = <<Call("DeleteCluster")>>
             /\ ret \in {APIError(StatusNotFound), APIError(StatusGone)}
    /\ DeleteFailureKeepsState

\* An accepted delete whose wait ended on a fetch answered with 410.
C25_Witness ==
    /\ ClusterDeleteDone /\ DeleteAccepted /\ diag = NoDiag /\ ~managed
    /\ last.status = StatusGone

\* C27: when ProvisionCluster has succeeded inside Cluster Create, then at
\* the end of Create the managed state holds the new cluster's identifier or
\* the cluster does not exist remotely, however the wait for "active" ended.
C27_NoUntrackedCluster ==
    (/\ pc = "done" /\ kind = "cluster" /\ verb = "Create"
     /\ calls = <<Call("ProvisionCluster"), Call("WaitForClusterActive")>>)
        => \/ managed /\ tf.id = <<"1">>
           \/ remote.Status = "deleted"

\* C28: a successful extension Create whose plan names a database D persists
\* database = D and id = clusterID/extension/D, whatever the configure
\* response and the remote cluster hold.
C28_PlannedDatabaseHonoured ==
    (CreatedOK("extension") /\ plan.database \notin {UnknownStr, NullStr}) =>
        /\ tf.database = plan.database
        /\ tf.id = plan.cluster_id \o <<Slash>> \o plan.extension \o <<Slash>> \o plan.database

\* C29: every RemoveNode call of a Cluster Update from m to n nodes, with
\* 1 <= n < m <= MaxNodes, names <tenant>-db-j for some n < j <= m, and so
\* never <tenant>-db-1, in executions that ran through and in aborted ones.
RemoveTargets == {calls[k].name : k \in {l \in 1..Len(calls) : calls[l].fn = "RemoveNode"}}

NodeNamed(j) == tenant \o <<"-", "d", "b", "-", DigitChar(j)>>

C29_FirstNodeKept ==
    (kind = "cluster" /\ verb = "Update") =>
        /\ RemoveTargets \subseteq {NodeNamed(j) : j \in (plan.node_count + 1)..oldCount}
        /\ NodeNamed(1) \notin RemoveTargets
        /\ RemoveTargets # {} => 1 <= plan.node_count /\ oldCount <= MaxNodes

\* An Update from 3 nodes to 1 that removed db-3, asked to remove db-2 and
\* was then aborted by a failure.
C29_Witness ==
    /\ pc = "done" /\ kind = "cluster" /\ verb = "Update" /\ diag # NoDiag
    /\ oldCount = 3 /\ plan.node_count = 1
    /\ RemoveTargets = {NodeNamed(3), NodeNamed(2)}

\* C30: parsing the identifier that Create built gives back the cluster id
\* and the key attributes Create built it from, for user, database,
\* extension and grant, and for keys that are empty or hold a '/'.
KeysOf(k, state) ==
    CASE k = "user" -> <<state.username>>
      [] k = "database" -> <<state.name>>
      [] k = "extension" -> <<state.extension, state.database>>
      [] k = "grant" -> <<state.username, state.database>>

C30_IdRoundTrip ==
    pc = "parsed" =>
        /\ plan.ok
        /\ plan.clusterID = Atoi(tf.cluster_id).val
        /\ plan.parts = KeysOf(kind, tf)

====
